---------------------------- MODULE Spec2Model ----------------------------
(***************************************************************************)
(* The real-time gateway of the MAS messenger (apps/server/src/ws.ts, kept *)
(* in src/apps/server/src/index.ts lines 208-403) and the conversation     *)
(* store it drives (src/apps/server/src/store.ts).                         *)
(* Phone verification (auth.ts, kept in src/apps/desktop/src/App.tsx lines *)
(* 1870-1940) creates user records and migrates orphaned messages.         *)
(*                                                                         *)
(* One action per event the server handles: a connection, an inbound       *)
(* frame of each type, a socket's close event, and the passing of time.    *)
(* Every handler is one atomic step, as Node runs it to completion.        *)
(* `out' holds the frames the last step handed to socket.send, in order;   *)
(* `last' names the event the last step handled.                           *)
(***************************************************************************)
EXTENDS Integers, Sequences, FiniteSets, TLC

\* ------------------------------------------------------------------ universe

Users    == {"A", "B", "C"}
NoUser   == "none"              \* undefined / null where an identity is expected
MsgIds   == {"m1", "m2"}
NoId     == "none"              \* undefined where a message id is expected
Emojis   == {"+1"}
NoEmoji  == "none"
Null     == -1                  \* undefined / NULL where a timestamp is expected
Envs     == {"e1", "e2"}        \* the five envelope columns, written together
NoEnv    == "none"
NoStatus == [text |-> "", length |-> 0]   \* a status that is missing, null or ""

MaxSockets == 3                 \* sockets that exist at the same time
MaxTicks   == 1                 \* clock steps in a run
MaxBurst   == 2                 \* frames of one identity per window, outside SpecRate
MaxOver    == 2                 \* frames past the rate limit, in SpecRate
MaxRateTicks == 2               \* clock steps in a run of SpecRate
MaxTwo     == 3                 \* frames of one identity in SpecTwo

Sockets  == 1..MaxSockets
NoSock   == 0

WS_RATE_LIMIT     == 60
WS_RATE_WINDOW    == 10000
MaxFrameLength    == 512000     \* data.length > 512_000
MaxReadBatch      == 100        \* ids.length > 100
UnauthorizedCode  == 4001
SupersededCode    == 4002
ChatListLimit     == 50         \* LIMIT 50
MaxStatusLength   == 200        \* payload.status.slice(0, 200)

VARIABLES
  sock,                  \* socket -> [state, user, code]: the ws objects
  clients,               \* identity -> its registered socket, or NoSock
  onlineUsers,           \* identity -> last-seen time, or Null
  contactSubscriptions,  \* identity -> its presence subscribers, in insertion order
  wsRateLimits,          \* identity -> [count, resetAt]; count 0 is "no entry"
  messages,              \* the messages table: id -> row, for the ids stored
  rowid,                 \* id -> the rowid SQLite gave the row, for the ids stored
  users,                 \* the users table: id -> [phone, status], for the ids with a record
  now,                   \* the server clock (Date.now(), and new Date())
  out,                   \* frames the last step passed to socket.send
  wire,                  \* [on, q]: while on, q[s] is what socket s was handed so far
  last,                  \* the event the last step handled
  unswept,               \* the rate-limit windows as they would be had no sweep run
  emitted                \* emitted[u]: what the last presence frame handed to a socket said of u

vars == <<sock, clients, onlineUsers, contactSubscriptions, wsRateLimits,
          messages, rowid, users, now, out, wire, last, unswept, emitted>>

\* ------------------------------------------------------------------ sockets

FreeSock == [state |-> "free", user |-> NoUser, code |-> 0]
NoEntry  == [count |-> 0, resetAt |-> Null]

\* clients.get(x), for any x a payload may carry
Lookup(cl, x) == IF x \in Users THEN cl[x] ELSE NoSock

\* A socket the 'message' handler can still fire on: its handler was attached
\* (it authenticated) and the peer has not closed. After the server's own
\* close(4002) the socket is CLOSING and frames the peer sent before it saw the
\* close are still delivered to the handler.
CanReceive(s) ==
  /\ sock[s].user # NoUser
  /\ sock[s].state \in {"open", "closing"}

SafeSendAlways(sk, s, f) == <<[to |-> s, frame |-> f]>>

safeSend(sk, s, f) ==
  IF sk[s].state = "open" THEN <<[to |-> s, frame |-> f]>> ELSE <<>>

\* safeSend to clients.get(x), if there is one
SendTo(cl, sk, x, f) ==
  IF Lookup(cl, x) # NoSock THEN safeSend(sk, Lookup(cl, x), f) ELSE <<>>

\* A stream to which each frame is added in front of the earlier ones
WrittenInFront(w, sk, o) ==
  IF ~w.on THEN w
  ELSE [w EXCEPT !.q = [s \in Sockets |->
          IF sk[s].state = "free" THEN <<>>
          ELSE LET mine == SelectSeq(o, LAMBDA f : f.to = s)
               IN [i \in 1..Len(mine) |-> mine[i].frame] \o w.q[s]]]

\* socket.send appends to the socket's outbound stream: the stream of each
\* socket after the frames o of one step, for the sockets sk that exist
Written(w, sk, o) ==
  IF ~w.on THEN w
  ELSE [w EXCEPT !.q = [s \in Sockets |->
          IF sk[s].state = "free" THEN <<>>
          ELSE LET mine == SelectSeq(o, LAMBDA f : f.to = s)
               IN w.q[s] \o [i \in 1..Len(mine) |-> mine[i].frame]]]

\* What the last presence frame handed to a socket said of each identity, after
\* the frames o of one step, where the frames are observed
Emitted(e, o) ==
  [u \in Users |->
     IF e[u] = "unobserved" THEN e[u]
     ELSE IF \E i \in DOMAIN o : o[i].frame.type = "presence" /\ o[i].frame.userId = u
     THEN LET i == CHOOSE i \in DOMAIN o :
                     o[i].frame.type = "presence" /\ o[i].frame.userId = u
          IN IF o[i].frame.isOnline THEN "online" ELSE "offline"
     ELSE e[u]]

RECURSIVE Concat(_)
Concat(ss) == IF ss = <<>> THEN <<>> ELSE Head(ss) \o Concat(Tail(ss))

Range(f) == {f[i] : i \in DOMAIN f}

\* A presence frame that says online whatever happened
PresenceFrameOnline(ou, u, isOnline) ==
  [type |-> "presence", userId |-> u, isOnline |-> TRUE, lastSeen |-> ou[u]]

PresenceFrame(ou, u, isOnline) ==
  [type |-> "presence", userId |-> u, isOnline |-> isOnline, lastSeen |-> ou[u]]

notifyPresence(cl, sk, ou, subs, u, isOnline) ==
  Concat([i \in 1..Len(subs[u]) |->
            SendTo(cl, sk, subs[u][i], PresenceFrame(ou, u, isOnline))])

\* A subscription list that takes the same subscriber again
subscribeToContactAgain(subs, userId, contactId) ==
  [subs EXCEPT ![contactId] = Append(@, userId)]

\* contactSubscriptions.get(contactId).add(userId), a Set
subscribeToContact(subs, userId, contactId) ==
  IF userId \in Range(subs[contactId]) THEN subs
  ELSE [subs EXCEPT ![contactId] = Append(@, userId)]

\* ------------------------------------------------------------------ rate limiter

\* A limiter that lets one frame more through per window
checkWsRateOneMore(limits, u, t) ==
  LET entry == limits[u] IN
  IF entry.count = 0 \/ t > entry.resetAt
  THEN [ok |-> TRUE,
        limits |-> [limits EXCEPT ![u] = [count |-> 1, resetAt |-> t + WS_RATE_WINDOW]]]
  ELSE [ok |-> entry.count <= WS_RATE_LIMIT,
        limits |-> [limits EXCEPT ![u].count = @ + 1]]

\* A limiter whose window, once opened, never expires
checkWsRateNoExpiry(limits, u, t) ==
  LET entry == limits[u] IN
  IF entry.count = 0
  THEN [ok |-> TRUE,
        limits |-> [limits EXCEPT ![u] = [count |-> 1, resetAt |-> t + WS_RATE_WINDOW]]]
  ELSE [ok |-> entry.count + 1 <= WS_RATE_LIMIT,
        limits |-> [limits EXCEPT ![u].count = @ + 1]]

\* checkWsRate(userId) at time t: the verdict and the map it leaves
checkWsRate(limits, u, t) ==
  LET entry == limits[u] IN
  IF entry.count = 0 \/ t > entry.resetAt
  THEN [ok |-> TRUE,
        limits |-> [limits EXCEPT ![u] = [count |-> 1, resetAt |-> t + WS_RATE_WINDOW]]]
  ELSE [ok |-> entry.count + 1 <= WS_RATE_LIMIT,
        limits |-> [limits EXCEPT ![u].count = @ + 1]]


\* ------------------------------------------------------------------ the store
\* A row of the messages table. body, meta and replyToId are written once by the
\* insert and read by nothing modelled here; env stands for the five envelope
\* columns (ciphertext, nonce, selfCiphertext, selfNonce, senderPublicKey), which
\* every statement writes together. reactions is the parsed JSON column: a map
\* from the emojis present to the list of reacting identities; a NULL column and
\* "{}" are both the empty map, as transactReaction reads them.
NoReactions == [e \in {} |-> <<>>]

toRow(msg) ==
  [id          |-> msg.id,
   from        |-> msg.from,
   to          |-> msg.to,
   createdAt   |-> msg.createdAt,
   contentType |-> IF msg.contentType = "none" THEN "text" ELSE msg.contentType,
   env         |-> msg.env,
   deliveredAt |-> msg.deliveredAt,
   readAt      |-> msg.readAt,
   editedAt    |-> msg.editedAt,
   pinned      |-> msg.pinned,
   reactions   |-> msg.reactions]

Stored(msgs, id) == id \in DOMAIN msgs

\* stmts.insertMessage: id is the PRIMARY KEY, so the caller checks Stored first
\* (the statement throws on a stored id).
insertMessage(msgs, row) ==
  [i \in DOMAIN msgs \cup {row.id} |-> IF i = row.id THEN row ELSE msgs[i]]

Remove(msgs, id) == [i \in DOMAIN msgs \ {id} |-> msgs[i]]

COALESCE(a, b) == IF a # Null THEN a ELSE b

\* stmts.updateDelivered.run(deliveredAt, readAt, id)
updateDelivered(msgs, deliveredAt, readAt, id) ==
  IF ~Stored(msgs, id) THEN msgs
  ELSE [msgs EXCEPT ![id].deliveredAt = COALESCE(deliveredAt, @),
                    ![id].readAt      = COALESCE(readAt, @)]

\* for (const id of ids) stmts.updateDelivered.run(deliveredAt, readAt, id): the
\* loop over ids, taken as the loop over the first half of ids followed by the
\* loop over the rest. The test on the rows (an UPDATE adds and removes none)
\* has TLC finish the first half before it starts the second; both keep the
\* evaluation of a batch of a hundred ids shallow.
RECURSIVE batchUpdateDelivered(_, _, _, _)
batchUpdateDelivered(msgs, ids, deliveredAt, readAt) ==
  IF ids = <<>> THEN msgs
  ELSE IF Len(ids) = 1 THEN updateDelivered(msgs, deliveredAt, readAt, ids[1])
  ELSE LET half  == Len(ids) \div 2
           first == batchUpdateDelivered(msgs, SubSeq(ids, 1, half), deliveredAt, readAt)
       IN IF DOMAIN first = DOMAIN msgs
          THEN batchUpdateDelivered(first, SubSeq(ids, half + 1, Len(ids)),
                                    deliveredAt, readAt)
          ELSE first

\* db.updateMessages(ids, patch)
updateMessages(msgs, ids, patch) ==
  batchUpdateDelivered(msgs, ids, patch.deliveredAt, patch.readAt)

\* db.deleteMessage(id, userId): the table afterwards
deleteMessage(msgs, id, userId) ==
  IF Stored(msgs, id) /\ (msgs[id].from = userId \/ msgs[id].to = userId)
  THEN Remove(msgs, id) ELSE msgs

\* An edit that writes the row anew, without its pin and its reactions
editMessageResetting(msgs, id, userId, patch, t) ==
  LET after == IF Stored(msgs, id) /\ msgs[id].from = userId
               THEN [msgs EXCEPT ![id].env = patch.env, ![id].editedAt = t,
                                 ![id].pinned = FALSE, ![id].reactions = NoReactions]
               ELSE msgs
  IN [msgs |-> after, found |-> Stored(after, id)]

\* db.editMessage(id, userId, patch) at time t: the table afterwards, and the row
\* the trailing getMessage returns (stored or not, changed or not)
editMessage(msgs, id, userId, patch, t) ==
  LET after == IF Stored(msgs, id) /\ msgs[id].from = userId
               THEN [msgs EXCEPT ![id].env = patch.env, ![id].editedAt = t]
               ELSE msgs
  IN [msgs |-> after, found |-> Stored(after, id)]

\* A pin that sets the flag instead of flipping it
togglePinSetting(msgs, id, userId) ==
  LET after == IF Stored(msgs, id) /\ (msgs[id].from = userId \/ msgs[id].to = userId)
               THEN [msgs EXCEPT ![id].pinned = TRUE]
               ELSE msgs
  IN [msgs |-> after, found |-> Stored(after, id)]

\* db.togglePin(id, userId)
togglePin(msgs, id, userId) ==
  LET after == IF Stored(msgs, id) /\ (msgs[id].from = userId \/ msgs[id].to = userId)
               THEN [msgs EXCEPT ![id].pinned = ~@]
               ELSE msgs
  IN [msgs |-> after, found |-> Stored(after, id)]

IndexOf(seq, x) ==
  IF x \in Range(seq) THEN CHOOSE i \in 1..Len(seq) :
                             seq[i] = x /\ \A j \in 1..(i - 1) : seq[j] # x
  ELSE 0

Splice(seq, i) == SubSeq(seq, 1, i - 1) \o SubSeq(seq, i + 1, Len(seq))

SetKey(map, k, v) == [e \in DOMAIN map \cup {k} |-> IF e = k THEN v ELSE map[e]]
DelKey(map, k)    == [e \in DOMAIN map \ {k} |-> map[e]]

\* the reaction map transactReaction writes back
toggledReactions(reactions, userId, emoji) ==
  LET list == IF emoji \in DOMAIN reactions THEN reactions[emoji] ELSE <<>>
      idx  == IndexOf(list, userId)
  IN IF idx > 0
     THEN IF Splice(list, idx) = <<>> THEN DelKey(reactions, emoji)
          ELSE SetKey(reactions, emoji, Splice(list, idx))
     ELSE SetKey(reactions, emoji, <<userId>>)

\* db.addReaction(id, userId, emoji) = transactReaction
transactReaction(msgs, id, userId, emoji) ==
  IF ~Stored(msgs, id) THEN [msgs |-> msgs, found |-> FALSE]
  ELSE [msgs  |-> [msgs EXCEPT ![id].reactions = toggledReactions(@, userId, emoji)],
        found |-> TRUE]

\* ------------------------------------------------------------------ frame handlers
\* What the dispatch of one admitted frame does: the subscriptions and the table
\* afterwards, and the frames passed to socket.send, in order. userId is the
\* identity the connection authenticated as, s the socket the frame came in on.
Effect(subs, msgs, o) == [subs |-> subs, msgs |-> msgs, out |-> o]
Dropped == Effect(contactSubscriptions, messages, <<>>)

StampedKeepingPayload(payload, userId, deliveredAt) ==
  [payload EXCEPT !.from = userId,
                  !.deliveredAt = IF @ # Null THEN @ ELSE deliveredAt]

\* A stamp that keeps the from of a payload that has one
StampedTrustingFrom(payload, userId, deliveredAt) ==
  [payload EXCEPT !.from = IF @ # NoUser THEN @ ELSE userId,
                  !.deliveredAt = deliveredAt]

\* { ...payload, from: userId, deliveredAt }
Stamped(payload, userId, deliveredAt) ==
  [payload EXCEPT !.from = userId, !.deliveredAt = deliveredAt]

\* type === "message.send"
MessageSend(userId, s, payload) ==
  IF payload.to = NoUser \/ payload.id = NoId \/ payload.createdAt = Null THEN Dropped
  ELSE
    LET subs1       == subscribeToContact(contactSubscriptions, userId, payload.to)
        subs2       == subscribeToContact(subs1, payload.to, userId)
        deliveredAt == IF Lookup(clients, payload.to) # NoSock THEN now ELSE Null
        message     == Stamped(payload, userId, deliveredAt)
    IN IF Stored(messages, payload.id)
       THEN Effect(subs2, messages, <<>>)         \* saveMessage throws; caught
       ELSE Effect(subs2, insertMessage(messages, toRow(message)),
                   SendTo(clients, sock, payload.to,
                          [type |-> "message.receive", msg |-> message])
                   \o (IF deliveredAt # Null
                       THEN safeSend(sock, s, [type |-> "message.delivered",
                                               id |-> payload.id,
                                               deliveredAt |-> deliveredAt])
                       ELSE <<>>))

\* type === "message.delete"
MessageDelete(userId, s, payload) ==
  IF payload.id = NoId THEN Dropped
  ELSE Effect(contactSubscriptions, deleteMessage(messages, payload.id, userId),
              SendTo(clients, sock, payload.peerId,
                     [type |-> "message.deleted", id |-> payload.id, from |-> userId]))

\* type === "message.edit"
MessageEdit(userId, s, payload) ==
  IF payload.id = NoId \/ payload.peerId = NoUser THEN Dropped
  ELSE
    LET r == editMessage(messages, payload.id, userId, payload, now) IN
    IF r.found
    THEN LET frame == [type |-> "message.edited",
                       msg  |-> [r.msgs[payload.id] EXCEPT !.from = userId]]
         IN Effect(contactSubscriptions, r.msgs,
                   SendTo(clients, sock, payload.peerId, frame) \o safeSend(sock, s, frame))
    ELSE Effect(contactSubscriptions, r.msgs, <<>>)

\* type === "message.pin"
MessagePin(userId, s, payload) ==
  IF payload.id = NoId \/ payload.peerId = NoUser THEN Dropped
  ELSE
    LET r == togglePin(messages, payload.id, userId) IN
    IF r.found
    THEN LET frame == [type |-> "message.pinned", id |-> payload.id,
                       pinned |-> r.msgs[payload.id].pinned]
         IN Effect(contactSubscriptions, r.msgs,
                   SendTo(clients, sock, payload.peerId, frame) \o safeSend(sock, s, frame))
    ELSE Effect(contactSubscriptions, r.msgs, <<>>)

\* A react branch that tells the peer only
MessageReactPeerOnly(userId, s, payload) ==
  IF payload.id = NoId \/ payload.peerId = NoUser \/ payload.emoji = NoEmoji THEN Dropped
  ELSE
    LET r == transactReaction(messages, payload.id, userId, payload.emoji) IN
    IF r.found
    THEN Effect(contactSubscriptions, r.msgs,
                SendTo(clients, sock, payload.peerId,
                       [type |-> "message.reacted", id |-> payload.id,
                        reactions |-> r.msgs[payload.id].reactions]))
    ELSE Effect(contactSubscriptions, r.msgs, <<>>)

\* type === "message.react"
MessageReact(userId, s, payload) ==
  IF payload.id = NoId \/ payload.peerId = NoUser \/ payload.emoji = NoEmoji THEN Dropped
  ELSE
    LET r == transactReaction(messages, payload.id, userId, payload.emoji) IN
    IF r.found
    THEN LET frame == [type |-> "message.reacted", id |-> payload.id,
                       reactions |-> r.msgs[payload.id].reactions]
         IN Effect(contactSubscriptions, r.msgs,
                   SendTo(clients, sock, payload.peerId, frame) \o safeSend(sock, s, frame))
    ELSE Effect(contactSubscriptions, r.msgs, <<>>)

\* Array.isArray(x): a JSON array is a function on 1..n, any other JSON value
\* with members (an object) a function on another domain
IsArray(x) == DOMAIN x = 1..Cardinality(DOMAIN x)

\* A message.read branch without the upper limit on the batch
MessageReadUncapped(userId, s, payload) ==
  IF ~IsArray(payload.ids) \/ Len(payload.ids) = 0 THEN Dropped
  ELSE
    Effect(contactSubscriptions,
           updateMessages(messages, payload.ids, [readAt |-> now, deliveredAt |-> now]),
           SendTo(clients, sock, payload.peerId,
                  [type |-> "message.read", ids |-> payload.ids, readAt |-> now]))

\* type === "message.read"; payload.ids is the array of ids
MessageRead(userId, s, payload) ==
  IF ~IsArray(payload.ids) \/ Len(payload.ids) = 0 \/ Len(payload.ids) > MaxReadBatch
  THEN Dropped
  ELSE
    LET readAt == now IN
    Effect(contactSubscriptions,
           updateMessages(messages, payload.ids, [readAt |-> readAt, deliveredAt |-> readAt]),
           SendTo(clients, sock, payload.peerId,
                  [type |-> "message.read", ids |-> payload.ids, readAt |-> readAt]))

\* type === "typing"
Typing(userId, s, payload) ==
  IF payload.to = NoUser THEN Dropped
  ELSE Effect(contactSubscriptions, messages,
              SendTo(clients, sock, payload.to, [type |-> "typing", from |-> userId]))

CallTypes == {"call.offer", "call.answer", "call.ice", "call.end"}

\* A relay that forwards an answer, a candidate or an end only after an earlier
\* frame of the same identity
CallNeedingOffer(userId, s, type, payload) ==
  IF payload.to = NoUser \/ (type # "call.offer" /\ wsRateLimits[userId].count = 0)
  THEN Dropped
  ELSE Effect(contactSubscriptions, messages,
              SendTo(clients, sock, payload.to,
                     [type |-> type, payload |-> [payload EXCEPT !.from = userId]]))

\* type === "call.offer" || "call.answer" || "call.ice" || "call.end"
Call(userId, s, type, payload) ==
  IF payload.to = NoUser THEN Dropped
  ELSE Effect(contactSubscriptions, messages,
              SendTo(clients, sock, payload.to,
                     [type |-> type, payload |-> [payload EXCEPT !.from = userId]]))

\* type === "status.update": the users table it leaves. A status is its text
\* and its length; slice(0, 200) keeps the first 200 characters.
StatusUpdate(us, userId, payload) ==
  IF payload.status = NoStatus THEN us
  ELSE IF userId \in DOMAIN us
       THEN [us EXCEPT ![userId].status =
               [payload.status EXCEPT !.length = IF @ > MaxStatusLength
                                                 THEN MaxStatusLength ELSE @]]
       ELSE us

Dispatch(userId, s, type, payload) ==
  CASE type = "message.send"   -> MessageSend(userId, s, payload)
    [] type = "typing"         -> Typing(userId, s, payload)
    [] type \in CallTypes      -> Call(userId, s, type, payload)
    [] type = "message.delete" -> MessageDelete(userId, s, payload)
    [] type = "message.edit"   -> MessageEdit(userId, s, payload)
    [] type = "message.pin"    -> MessagePin(userId, s, payload)
    [] type = "message.react"  -> MessageReact(userId, s, payload)
    [] type = "message.read"   -> MessageRead(userId, s, payload)
    [] type = "status.update"  -> Dropped      \* writes the users table: StatusUpdate
    [] OTHER                   -> Dropped

RateLimitedFrame == [type |-> "error", message |-> "rate_limited"]

\* An inbound frame as it arrives: the length of its text, whether the text is
\* JSON, and the type and payload the JSON has. NoType is a type member that is
\* missing, empty or not a string; NoPayload a payload member that is missing
\* or falsy.
NoType    == ""
NoPayload == [missing |-> TRUE]
Frame(type, payload) == [length |-> 1, parses |-> TRUE, type |-> type, payload |-> payload]

\* A dispatch that goes on as if the store had not thrown
DispatchIgnoringFailure(userId, s, type, payload) == Dispatch(userId, s, type, payload)

\* The dispatch of a frame during which the store throws in whatever statement
\* the frame runs: the exception leaves the try block for the empty catch.
\* message.send has subscribed both ways before it calls db.saveMessage; every
\* other branch that uses the store calls it before anything else; typing and
\* call.* do not use the store.
DispatchStoreFailing(userId, s, type, payload) ==
  CASE type = "message.send" ->
         IF payload.to = NoUser \/ payload.id = NoId \/ payload.createdAt = Null
         THEN Dropped
         ELSE Effect(subscribeToContact(
                       subscribeToContact(contactSubscriptions, userId, payload.to),
                       payload.to, userId),
                     messages, <<>>)
    [] type = "message.delete" -> IF payload.id = NoId THEN Dropped
                                  ELSE Effect(contactSubscriptions, messages, <<>>)
    [] type = "typing"         -> Typing(userId, s, payload)
    [] type \in CallTypes      -> Call(userId, s, type, payload)
    [] OTHER                   -> Dropped

\* A try block that does not look at the length of the text
HandleFrameAnyLength(userId, s, raw, storeOk) ==
  IF ~raw.parses THEN Dropped
  ELSE IF raw.type = NoType \/ raw.payload = NoPayload THEN Dropped
  ELSE IF storeOk THEN Dispatch(userId, s, raw.type, raw.payload)
  ELSE DispatchStoreFailing(userId, s, raw.type, raw.payload)

\* The try block of the message handler for an admitted frame
HandleFrame(userId, s, raw, storeOk) ==
  IF raw.length > MaxFrameLength THEN Dropped
  ELSE IF ~raw.parses THEN Dropped                 \* JSON.parse throws; caught
  ELSE IF raw.type = NoType \/ raw.payload = NoPayload THEN Dropped
  ELSE IF storeOk THEN Dispatch(userId, s, raw.type, raw.payload)
  ELSE DispatchStoreFailing(userId, s, raw.type, raw.payload)

\* socket.on("message"): one inbound frame on socket s, handled while the store
\* works (storeOk) or while its statements throw
OnFrame(s, raw, storeOk) ==
  /\ CanReceive(s)
  /\ LET userId == sock[s].user
         rate   == checkWsRate(wsRateLimits, userId, now)
         e      == IF rate.ok THEN HandleFrame(userId, s, raw, storeOk)
                   ELSE Effect(contactSubscriptions, messages,
                               safeSend(sock, s, RateLimitedFrame))
     IN /\ wsRateLimits' = rate.limits
        /\ unswept' = checkWsRate(unswept, userId, now).limits
        /\ contactSubscriptions' = e.subs
        /\ messages' = e.msgs
        \* an inserted row gets the rowid after the greatest in the table
        /\ rowid' = [i \in DOMAIN e.msgs |->
                       IF i \in DOMAIN messages THEN rowid[i]
                       ELSE 1 + (CHOOSE r \in {rowid[j] : j \in DOMAIN messages} \cup {0} :
                                   \A k \in DOMAIN messages : rowid[k] <= r)]
        /\ users' = IF rate.ok /\ storeOk /\ raw.length <= MaxFrameLength /\ raw.parses
                        /\ raw.type = "status.update" /\ raw.payload # NoPayload
                     THEN StatusUpdate(users, userId, raw.payload)
                     ELSE users
        /\ out' = e.out
        /\ last' = [op |-> raw.type, sock |-> s, user |-> userId, payload |-> raw.payload,
                    admitted |-> rate.ok, length |-> raw.length, parses |-> raw.parses,
                    storeOk |-> storeOk]
  /\ wire' = Written(wire, sock, out')
  /\ UNCHANGED <<sock, clients, onlineUsers, now, emitted>>

\* socket.on("message"): one inbound frame {type, payload} of ordinary length on
\* socket s, the store working
OnMessage(s, type, payload) == OnFrame(s, Frame(type, payload), TRUE)

\* ------------------------------------------------------------------ connections

SupersedeNever(sk, prev, s) == sk

\* if (prev && prev.socket !== socket && prev is OPEN) prev.socket.close(4002)
Supersede(sk, prev, s) ==
  IF prev # NoSock /\ prev # s /\ sk[prev].state = "open"
  THEN [sk EXCEPT ![prev].state = "closing", ![prev].code = SupersededCode]
  ELSE sk

\* A connection handler that leaves a socket without a valid token open
ConnectLenient(s, tok) ==
  /\ sock[s].state = "free"
  /\ IF tok = NoUser
     THEN /\ sock' = [sock EXCEPT ![s] = [state |-> "open", user |-> NoUser, code |-> 0]]
          /\ out' = <<>>
          /\ UNCHANGED <<clients, onlineUsers>>
     ELSE LET sk1  == Supersede(sock, clients[tok], s)
              sk2  == [sk1 EXCEPT ![s] = [state |-> "open", user |-> tok, code |-> 0]]
              cl   == [clients EXCEPT ![tok] = s]
              ou   == [onlineUsers EXCEPT ![tok] = now]
          IN /\ sock' = sk2
             /\ clients' = cl
             /\ onlineUsers' = ou
             /\ out' = notifyPresence(cl, sk2, ou, contactSubscriptions, tok, TRUE)
  /\ last' = [op |-> "connect", sock |-> s, user |-> tok]
  /\ wire' = Written(wire, sock', out')
  /\ emitted' = Emitted(emitted, out')
  /\ UNCHANGED <<contactSubscriptions, wsRateLimits, unswept, messages, rowid, users, now>>

\* wss.on("connection"): a new socket s whose token resolves to tok (NoUser: the
\* token is missing or verifyToken returns null)
Connect(s, tok) ==
  /\ sock[s].state = "free"
  /\ IF tok = NoUser
     THEN /\ sock' = [sock EXCEPT ![s] = [state |-> "closing", user |-> NoUser,
                                          code |-> UnauthorizedCode]]
          /\ out' = <<>>
          /\ UNCHANGED <<clients, onlineUsers>>
     ELSE LET sk1  == Supersede(sock, clients[tok], s)
              sk2  == [sk1 EXCEPT ![s] = [state |-> "open", user |-> tok, code |-> 0]]
              cl   == [clients EXCEPT ![tok] = s]
              ou   == [onlineUsers EXCEPT ![tok] = now]
          IN /\ sock' = sk2
             /\ clients' = cl
             /\ onlineUsers' = ou
             /\ out' = notifyPresence(cl, sk2, ou, contactSubscriptions, tok, TRUE)
  /\ last' = [op |-> "connect", sock |-> s, user |-> tok]
  /\ wire' = Written(wire, sock', out')
  /\ emitted' = Emitted(emitted, out')
  /\ UNCHANGED <<contactSubscriptions, wsRateLimits, unswept, messages, rowid, users, now>>

\* The peer closes an open socket (close frame or lost transport): readyState
\* leaves OPEN at once, no further frame is delivered, the 'close' event follows.
PeerClose(s) ==
  /\ sock[s].state = "open"
  /\ sock' = [sock EXCEPT ![s].state = "closed"]
  /\ out' = <<>>
  /\ last' = [op |-> "peer-close", sock |-> s, user |-> sock[s].user]
  /\ UNCHANGED <<clients, onlineUsers, contactSubscriptions, wsRateLimits, unswept, messages,
                 rowid, users, now, wire, emitted>>

IsCurrentAlways(cl, userId, s) == userId # NoUser

\* current && current.socket === socket
IsCurrent(cl, userId, s) == userId # NoUser /\ cl[userId] = s

\* socket.on("close") of socket s; an unauthenticated socket has no handler and
\* is just gone. The ws object is dropped afterwards.
OnClose(s) ==
  /\ sock[s].state \in {"closing", "closed"}
  /\ LET userId == sock[s].user
         sk     == [sock EXCEPT ![s] = FreeSock]
     IN /\ sock' = sk
        /\ IF IsCurrent(clients, userId, s)
           THEN LET cl == [clients EXCEPT ![userId] = NoSock]
                    ou == [onlineUsers EXCEPT ![userId] = now]
                IN /\ clients' = cl
                   /\ onlineUsers' = ou
                   /\ out' = notifyPresence(cl, sk, ou, contactSubscriptions, userId, FALSE)
           ELSE /\ out' = <<>>
                /\ UNCHANGED <<clients, onlineUsers>>
        /\ last' = [op |-> "close", sock |-> s, user |-> userId]
  /\ wire' = Written(wire, sock', out')
  /\ emitted' = Emitted(emitted, out')
  /\ UNCHANGED <<contactSubscriptions, wsRateLimits, unswept, messages, rowid, users, now>>

\* The steps the clock has made, each of 1 ms or of one rate window
ClockSteps == (now % WS_RATE_WINDOW) + (now \div WS_RATE_WINDOW)

\* The clock moves on by d milliseconds.
Tick(d) ==
  /\ now' = now + d
  /\ out' = <<>>
  /\ last' = [op |-> "tick"]
  /\ UNCHANGED <<sock, clients, onlineUsers, contactSubscriptions, wsRateLimits, unswept, messages,
                 rowid, users, wire, emitted>>

\* login TEXT, null until the user claims one. A login is its characters.
NoLogin == <<>>

\* Three identities that verified their phones and hold tokens
Registered == [u \in Users |-> [phone |-> u, login |-> NoLogin, status |-> NoStatus]]

\* The server with the users table us, every socket's stream recorded or not,
\* the presence frames observed or not
InitWith(us, recording, observing) ==
  /\ sock = [s \in Sockets |-> FreeSock]
  /\ clients = [u \in Users |-> NoSock]
  /\ onlineUsers = [u \in Users |-> Null]
  /\ contactSubscriptions = [u \in Users |-> <<>>]
  /\ wsRateLimits = [u \in Users |-> NoEntry]
  /\ unswept = [u \in Users |-> NoEntry]
  /\ messages = [i \in {} |-> 0]
  /\ rowid = [i \in {} |-> 0]
  /\ users = us
  /\ now = 0
  /\ out = <<>>
  /\ wire = [on |-> recording, q |-> [s \in Sockets |-> <<>>]]
  /\ last = [op |-> "init"]
  /\ emitted = [u \in Users |-> IF observing THEN "nothing" ELSE "unobserved"]

Init == InitWith(Registered, FALSE, FALSE)

\* ------------------------------------------------------------------ history fetch
Perms(S) == {f \in [1..Cardinality(S) -> S] : \A i, j \in DOMAIN f : i # j => f[i] # f[j]}

Reverse(seq) == [i \in 1..Len(seq) |-> seq[Len(seq) + 1 - i]]

Min(a, b) == IF a < b THEN a ELSE b

\* stmts.paginatedMessages: the orders ORDER BY createdAt DESC allows for the
\* conversation of a and b (rows of equal createdAt come in any order)
paginatedMessages(msgs, a, b) ==
  LET conv == {i \in DOMAIN msgs : (msgs[i].from = a /\ msgs[i].to = b)
                                    \/ (msgs[i].from = b /\ msgs[i].to = a)}
  IN {f \in Perms(conv) :
        \A i, j \in DOMAIN f : i < j => msgs[f[i]].createdAt >= msgs[f[j]].createdAt}

\* A page handed over as the statement returns it, newest first
getMessagesForNewestFirst(msgs, order, limit, offset) ==
  [i \in 1..(Min(offset + limit, Len(order)) - Min(offset, Len(order))) |->
     msgs[order[Min(offset, Len(order)) + i]]]

\* db.getMessagesFor(userId, peerId, limit, offset), for one such order
getMessagesFor(msgs, order, limit, offset) ==
  Reverse([i \in 1..(Min(offset + limit, Len(order)) - Min(offset, Len(order))) |->
             msgs[order[Min(offset, Len(order)) + i]]])

\* GET /messages/:peerId by an authenticated user
GetMessages(userId, peerId, limit, offset) ==
  /\ \E order \in paginatedMessages(messages, userId, peerId) :
       last' = [op |-> "GET /messages", user |-> userId, peer |-> peerId,
                limit |-> limit, offset |-> offset,
                result |-> getMessagesFor(messages, order, limit, offset)]
  /\ out' = <<>>
  /\ UNCHANGED <<sock, clients, onlineUsers, contactSubscriptions, wsRateLimits,
                 unswept, messages, rowid, users, now, wire, emitted>>

\* stmts.chatList for uid: per peer the row of greatest rowid, the rows ordered
\* by createdAt DESC (rows of equal createdAt in any order), LIMIT 50
chatList(msgs, rid, uid) ==
  LET mine    == {i \in DOMAIN msgs : msgs[i].from = uid \/ msgs[i].to = uid}
      peer(i) == IF msgs[i].from = uid THEN msgs[i].to ELSE msgs[i].from
      m(p)    == msgs[CHOOSE i \in mine :
                        peer(i) = p /\ \A j \in mine : peer(j) = p => rid[j] <= rid[i]]
  IN {[k \in 1..Min(Len(f), ChatListLimit) |->
         [peerId |-> f[k], lastMessageAt |-> m(f[k]).createdAt,
          lastContentType |-> m(f[k]).contentType]] :
        f \in {g \in Perms({peer(i) : i \in mine}) :
                 \A a, b \in DOMAIN g : a < b => m(g[a]).createdAt >= m(g[b]).createdAt}}

\* db.getChatList(userId): the summary with what the users table has of each peer
GetChats(userId) ==
  /\ \E rows \in chatList(messages, rowid, userId) :
       last' = [op |-> "chats", user |-> userId,
                result |-> [k \in DOMAIN rows |->
                              [peerId |-> rows[k].peerId,
                               peerPhone |-> IF rows[k].peerId \in DOMAIN users
                                             THEN users[rows[k].peerId].phone ELSE "Unknown",
                               lastMessageAt |-> rows[k].lastMessageAt,
                               lastContentType |-> rows[k].lastContentType]]]
  /\ out' = <<>>
  /\ UNCHANGED <<sock, clients, onlineUsers, contactSubscriptions, wsRateLimits,
                 unswept, messages, rowid, users, now, wire, emitted>>

\* ------------------------------------------------------------------ phone verification
\* stmts.orphanedUserIds: the identities messages name that have no user record
findOrphanedUserIds(msgs, us) ==
  ({msgs[i].from : i \in DOMAIN msgs} \cup {msgs[i].to : i \in DOMAIN msgs}) \ DOMAIN us

\* stmts.migrateFrom.run(newUserId, oldUserId)
migrateFrom(msgs, newUserId, oldUserId) ==
  [i \in DOMAIN msgs |-> [msgs[i] EXCEPT !.from = IF @ = oldUserId THEN newUserId ELSE @]]

\* A second statement that changes no row
migrateToNothing(msgs, newUserId, oldUserId) == msgs

\* stmts.migrateTo.run(newUserId, oldUserId)
migrateTo(msgs, newUserId, oldUserId) ==
  [i \in DOMAIN msgs |-> [msgs[i] EXCEPT !.to = IF @ = oldUserId THEN newUserId ELSE @]]

\* for (const oldId of orphanedIds) db.migrateMessages(oldId, user.id): the
\* table after each of the statements, which commit one by one
RECURSIVE migrateMessages(_, _, _)
migrateMessages(msgs, orphanedIds, newUserId) ==
  IF orphanedIds = <<>> THEN <<>>
  ELSE LET c1 == migrateFrom(msgs, newUserId, Head(orphanedIds))
           c2 == migrateTo(c1, newUserId, Head(orphanedIds))
       IN <<c1, c2>> \o migrateMessages(c2, Tail(orphanedIds), newUserId)

\* POST /auth/verify -> verifySmsCode(phone, code). codeOk: a pending, unexpired
\* code of the phone matches. id is what crypto.randomUUID() returns, an id
\* nothing has used. With storeOk the statements all run; without, one of the
\* migration statements throws, the earlier ones having committed.
VerifySmsCode(phone, codeOk, id, storeOk) ==
  /\ IF ~codeOk
     THEN /\ last' = [op |-> "verify", phone |-> phone, user |-> NoUser,
                      created |-> FALSE, threw |-> FALSE]
          /\ UNCHANGED <<users, messages>>
     ELSE IF \E u \in DOMAIN users : users[u].phone = phone
     THEN /\ last' = [op |-> "verify", phone |-> phone,
                      user |-> CHOOSE u \in DOMAIN users : users[u].phone = phone,
                      created |-> FALSE, threw |-> FALSE]
          /\ UNCHANGED <<users, messages>>
     ELSE LET us == users @@ (id :> [phone |-> phone, login |-> NoLogin, status |-> NoStatus]) IN
          /\ id \notin DOMAIN users \cup findOrphanedUserIds(messages, users)
          /\ users' = us
          /\ \E orphanedIds \in Perms(findOrphanedUserIds(messages, us)) :
               LET steps == migrateMessages(messages, orphanedIds, id) IN
               \E n \in 0..Len(steps) :
                 /\ storeOk <=> n = Len(steps)
                 /\ messages' = IF n = 0 THEN messages ELSE steps[n]
          /\ last' = [op |-> "verify", phone |-> phone, user |-> id,
                      created |-> TRUE, threw |-> ~storeOk]
  /\ out' = <<>>
  /\ UNCHANGED <<sock, clients, onlineUsers, contactSubscriptions, wsRateLimits, unswept, rowid,
                 now, wire, emitted>>

\* ------------------------------------------------------------------ inputs
\* A message.send payload with the fields a well-behaved client sends
SendPayload(to, id, createdAt) ==
  [to |-> to, id |-> id, createdAt |-> createdAt, from |-> NoUser,
   deliveredAt |-> Null, readAt |-> Null, editedAt |-> Null, pinned |-> FALSE,
   reactions |-> NoReactions, env |-> "e1", contentType |-> "none"]

\* The socket a new connection gets: socket objects are interchangeable, so the
\* model hands out the lowest one not in use.
NewSocket(s) == sock[s].state = "free" /\ \A r \in Sockets : r < s => sock[r].state # "free"

\* The frames of one identity per rate window are capped at cap in the model.
Budget(s, cap) ==
  /\ CanReceive(s)
  /\ \/ wsRateLimits[sock[s].user].count < cap
     \/ now > wsRateLimits[sock[s].user].resetAt

\* ------------------------------------------------------------------ SpecConn
\* Connections, closes and the message.send frames that create presence
\* subscriptions.
ConnUsers     == {"A", "B"}
ConnConnect   == \E s \in Sockets, tok \in ConnUsers : NewSocket(s) /\ Connect(s, tok)
ConnPeerClose == \E s \in Sockets : PeerClose(s)
ConnOnClose   == \E s \in Sockets : OnClose(s)
ConnTick      == ClockSteps < MaxTicks /\ Tick(1)
ConnSend      == \E s \in Sockets, to \in ConnUsers :
                   to # sock[s].user /\ Budget(s, MaxBurst) /\ OnMessage(s, "message.send", SendPayload(to, "m1", now))

NextConn == ConnConnect \/ ConnPeerClose \/ ConnOnClose \/ ConnTick \/ ConnSend
SpecConn == Init /\ [][NextConn]_vars

OpenSocketsOf(sk, u) == {s \in Sockets : sk[s].user = u /\ sk[s].state = "open"}

\* C3: when an identity authenticates a new connection while its registered
\* socket is still open, that socket is closed with the superseded code 4002 and
\* the registry maps the identity to the new socket; at all times the registered
\* socket of an identity is a socket of that identity, every open socket of an
\* identity is its registered one (so there is at most one), and the registry
\* entry of an identity only ever changes to the socket just bound or to none.
C3_OneSocketPerIdentity ==
  /\ [](\A u \in Users :
          /\ clients[u] # NoSock => sock[clients[u]].user = u
          /\ OpenSocketsOf(sock, u) \subseteq {clients[u]})
  /\ [][\A u \in Users :
          /\ (last'.op = "connect" /\ last'.user = u) =>
               /\ clients'[u] = last'.sock
               /\ sock'[last'.sock].state = "open"
               /\ (clients[u] # NoSock /\ sock[clients[u]].state = "open") =>
                     /\ sock'[clients[u]].state = "closing"
                     /\ sock'[clients[u]].code = SupersededCode
          /\ clients'[u] # clients[u] =>
               \/ clients'[u] = NoSock
               \/ last'.op = "connect" /\ last'.user = u /\ last'.sock = clients'[u]
       ]_vars

\* A second connection of A has just superseded A's open first one.
C3_Witness ==
  /\ last.op = "connect" /\ last.user = "A"
  /\ clients["A"] = last.sock
  /\ \E s1 \in Sockets \ {last.sock} :
       sock[s1].user = "A" /\ sock[s1].state = "closing" /\ sock[s1].code = SupersededCode

OfflineEventsAbout(o, u) ==
  {i \in DOMAIN o : o[i].frame.type = "presence" /\ o[i].frame.userId = u
                    /\ ~o[i].frame.isOnline}

\* C4: the close event of a socket that is not its identity's registered socket
\* changes neither the registry nor any last-seen time and sends nothing; and a
\* step that sends an offline presence event about an identity happens only when
\* that identity has no open socket, before and after the step.
C4_StaleCloseIsSilent ==
  [][/\ (last'.op = "close" /\ ~(last'.user # NoUser /\ clients[last'.user] = last'.sock)) =>
          /\ clients' = clients
          /\ onlineUsers' = onlineUsers
          /\ out' = <<>>
     /\ \A u \in Users :
          OfflineEventsAbout(out', u) # {} =>
              OpenSocketsOf(sock, u) = {} /\ OpenSocketsOf(sock', u) = {}
    ]_vars

\* The superseded socket of A has just had its close event, some time after A's
\* new socket was bound, while A's subscriber B is connected.
C4_Witness ==
  /\ last.op = "close" /\ last.user = "A"
  /\ clients["A"] # NoSock /\ sock[clients["A"]].state = "open"
  /\ onlineUsers["A"] < now
  /\ "B" \in Range(contactSubscriptions["A"])
  /\ clients["B"] # NoSock /\ sock[clients["B"]].state = "open"

\* ------------------------------------------------------------------ SpecMsg
\* Sending and history, with connections coming and going. A is the sender, to
\* B or to itself; C is a bystander. message.send payloads carry the fields a
\* client sends, or also a readAt and a deliveredAt of the client's choosing.
ForgedTime == MaxTicks + 4       \* a time the server clock does not reach here

MsgSendPayloads(to) ==
  {SendPayload(to, "m1", now),
   [SendPayload(to, "m1", now) EXCEPT !.readAt = ForgedTime, !.deliveredAt = ForgedTime]}

MsgConnect   == \E s \in Sockets, tok \in Users : NewSocket(s) /\ Connect(s, tok)
MsgPeerClose == \E s \in Sockets : PeerClose(s)
MsgOnClose   == \E s \in Sockets : OnClose(s)
MsgSend      == \E s \in Sockets, to \in {"A", "B"} : \E p \in MsgSendPayloads(to) :
                  sock[s].user = "A" /\ Budget(s, MaxBurst) /\ OnMessage(s, "message.send", p)
MsgGet       == GetMessages("B", "A", 100, 0)

NextMsg == MsgConnect \/ MsgPeerClose \/ MsgOnClose \/ MsgSend \/ MsgGet
SpecMsg == Init /\ [][NextMsg]_vars

Live(cl, sk, u) == Lookup(cl, u) # NoSock /\ sk[Lookup(cl, u)].state = "open"

\* the places in o of message.receive frames for message id written to socket s
Receives(o, s, id) ==
  {i \in DOMAIN o : o[i].to = s /\ o[i].frame.type = "message.receive"
                    /\ o[i].frame.msg.id = id}

\* the places in o of message.delivered frames for message id written to socket s
Delivereds(o, s, id) ==
  {i \in DOMAIN o : o[i].to = s /\ o[i].frame.type = "message.delivered"
                    /\ o[i].frame.id = id}

\* an accepted message.send with a fresh id to a recipient with a live connection
SendToLive ==
  /\ last'.op = "message.send" /\ last'.admitted
  /\ last'.payload.id \notin DOMAIN messages
  /\ Live(clients, sock, last'.payload.to)

\* C1 as claimed, for two different identities: whenever a message.send with a
\* fresh id is processed while the recipient has a live connection, exactly one
\* message.receive carrying the message goes to the recipient's socket, exactly
\* one message.delivered with the id goes to the sender's socket, and nothing
\* goes anywhere else.
C1_AsClaimed ==
  [][(SendToLive /\ last'.payload.to # last'.user) =>
       LET id  == last'.payload.id
           rcv == clients[last'.payload.to]
       IN /\ Cardinality(Receives(out', rcv, id)) = 1
          /\ \A i \in Receives(out', rcv, id) : out'[i].frame.msg.from = last'.user
          /\ Cardinality(Delivereds(out', last'.sock, id)) = 1
          /\ Len(out') = 2
    ]_vars

\* C1 amended: the message.receive goes to the recipient's socket exactly once;
\* the message.delivered goes to the socket the frame came in on exactly once if
\* that socket is open, and not at all if it is already closing (superseded);
\* nothing goes anywhere else.
C1_ReceiveAndAck ==
  [][SendToLive =>
       LET id  == last'.payload.id
           rcv == clients[last'.payload.to]
           ack == IF sock[last'.sock].state = "open" THEN 1 ELSE 0
       IN /\ Cardinality(Receives(out', rcv, id)) = 1
          /\ \A i \in Receives(out', rcv, id) : out'[i].frame.msg.from = last'.user
          /\ Cardinality(Delivereds(out', last'.sock, id)) = ack
          /\ Len(out') = 1 + ack
    ]_vars

\* A's message to B was just forwarded and acknowledged on two different open
\* sockets while a third identity is connected too.
C1_Witness ==
  /\ last.op = "message.send" /\ last.user = "A" /\ last.payload.to = "B"
  /\ Receives(out, clients["B"], "m1") # {}
  /\ Delivereds(out, last.sock, "m1") # {}
  /\ clients["B"] # last.sock
  /\ Live(clients, sock, "C")

\* C2: a message.send processed while the recipient has no registered socket
\* sends no frame at all and, if its id is fresh, stores the message with
\* deliveredAt unset whatever the payload said; a connection, a close and a
\* history fetch leave the table as it is; and a fetch returns the rows as
\* stored, so such a message comes back with deliveredAt still unset.
C2_UndeliveredStaysUnset ==
  [][/\ (/\ last'.op = "message.send" /\ last'.admitted
         /\ Lookup(clients, last'.payload.to) = NoSock) =>
            /\ out' = <<>>
            /\ last'.payload.id \notin DOMAIN messages =>
                 /\ last'.payload.id \in DOMAIN messages'
                 /\ messages'[last'.payload.id].deliveredAt = Null
     /\ last'.op \in {"connect", "peer-close", "close", "GET /messages"} =>
            messages' = messages
     /\ last'.op = "GET /messages" =>
            /\ \A i \in DOMAIN last'.result :
                 last'.result[i] = messages[last'.result[i].id]
            /\ \A id \in DOMAIN messages :
                 {messages[id].from, messages[id].to} = {last'.user, last'.peer} =>
                     \E i \in DOMAIN last'.result : last'.result[i].id = id
    ]_vars

\* B, connected by now, fetches its conversation with A and gets A's message
\* with deliveredAt unset although the payload carried one.
C2_Witness ==
  /\ last.op = "GET /messages" /\ last.user = "B" /\ last.peer = "A"
  /\ Live(clients, sock, "B")
  /\ Len(last.result) = 1
  /\ last.result[1].from = "A" /\ last.result[1].deliveredAt = Null
  /\ last.result[1].readAt = ForgedTime

\* ------------------------------------------------------------------ SpecRead
\* Delivery and read timestamps of one message, with the clock moving: A sends
\* m1 to B, A and B send read receipts naming it. Connections are only opened.
ReadUsers   == {"A", "B"}
ReadConnect == \E s \in Sockets, tok \in ReadUsers : NewSocket(s) /\ Connect(s, tok)
ReadTick    == ClockSteps < MaxTicks /\ Tick(1)
\* the payloads of A's message.send to B: those of SpecMsg, and one whose
\* createdAt, the time on A's clock, is ahead of the server's
ReadSendPayloads == MsgSendPayloads("B") \cup {SendPayload("B", "m1", ForgedTime)}

ReadSend    == \E s \in Sockets : \E p \in ReadSendPayloads :
                 sock[s].user = "A" /\ Budget(s, MaxBurst) /\ OnMessage(s, "message.send", p)
ReadRead    == \E s \in Sockets, peer \in ReadUsers :
                 Budget(s, MaxBurst)
                 /\ OnMessage(s, "message.read", [peerId |-> peer, ids |-> <<"m1">>])

NextRead == ReadConnect \/ ReadTick \/ ReadSend \/ ReadRead
SpecRead == Init /\ [][NextRead]_vars

\* ------------------------------------------------------------------ SpecMut
\* The mutations of one stored message: A sends m1 to B; any connected identity,
\* C included, then sends edit, delete, pin and react frames naming m1, with
\* peerId A or B. Connections are only opened.
MutConnect == \E s \in Sockets, tok \in Users : NewSocket(s) /\ Connect(s, tok)
MutSend    == \E s \in Sockets :
                sock[s].user = "A" /\ Budget(s, MaxBurst)
                /\ OnMessage(s, "message.send", SendPayload("B", "m1", now))
MutEdit    == \E s \in Sockets, peer \in {"A", "B"} :
                Budget(s, MaxBurst)
                /\ OnMessage(s, "message.edit", [id |-> "m1", peerId |-> peer, env |-> "e2"])
MutDelete  == \E s \in Sockets, peer \in {"A", "B"} :
                Budget(s, MaxBurst)
                /\ OnMessage(s, "message.delete", [id |-> "m1", peerId |-> peer])
MutPin     == \E s \in Sockets, peer \in {"A", "B"} :
                Budget(s, MaxBurst)
                /\ OnMessage(s, "message.pin", [id |-> "m1", peerId |-> peer])
MutReact   == \E s \in Sockets, peer \in {"A", "B"} :
                Budget(s, MaxBurst)
                /\ OnMessage(s, "message.react",
                             [id |-> "m1", peerId |-> peer, emoji |-> "+1"])

NextMut == MutConnect \/ MutSend \/ MutEdit \/ MutDelete \/ MutPin \/ MutReact
SpecMut == Init /\ [][NextMut]_vars

\* C5 as claimed: a message.edit or message.delete naming a stored message, sent
\* by an identity that is not the message's sender, leaves the table as it was
\* and sends no frame to any connection.
C5_AsClaimed ==
  [][(/\ last'.op \in {"message.edit", "message.delete"} /\ last'.admitted
      /\ last'.payload.id \in DOMAIN messages
      /\ messages[last'.payload.id].from # last'.user) =>
         /\ messages' = messages
         /\ out' = <<>>
    ]_vars

\* C6 as claimed: for every stored message, whatever its reactions, and every
\* identity, two consecutive reaction toggles by that identity with the same
\* emoji leave the message's reaction map as it was before the first.
C6_AsClaimed ==
  \A id \in DOMAIN messages : \A u \in Users : \A e \in Emojis :
    LET once  == transactReaction(messages, id, u, e).msgs
        twice == transactReaction(once, id, u, e).msgs
    IN twice[id].reactions = messages[id].reactions

\* C7 as claimed: every stored message whose readAt is set has deliveredAt set,
\* and not later than readAt.
C7_AsClaimed ==
  \A id \in DOMAIN messages :
    messages[id].readAt # Null =>
      /\ messages[id].deliveredAt # Null
      /\ messages[id].deliveredAt <= messages[id].readAt

\* C8 as claimed: once a stored message's deliveredAt has a value, no step
\* changes that value.
C8_AsClaimed ==
  [][\A id \in DOMAIN messages \cap DOMAIN messages' :
       messages[id].deliveredAt # Null =>
         messages'[id].deliveredAt = messages[id].deliveredAt
    ]_vars

\* C9 as claimed: a message.read frame never clears a stored message's readAt or
\* deliveredAt and never replaces either with an earlier value.
C9_AsClaimed ==
  [][last'.op = "message.read" =>
       \A id \in DOMAIN messages :
         /\ id \in DOMAIN messages'
         /\ messages'[id].readAt >= messages[id].readAt
         /\ messages'[id].deliveredAt >= messages[id].deliveredAt
    ]_vars

\* ------------------------------------------------------------------ SpecRate
\* The rate limiter at its limit: A, on its first or on a later connection,
\* sends reaction toggles and sends of m1 to B until the window is used up and
\* beyond; the clock moves by a whole window, and by a millisecond when it
\* stands at the end of A's window.
RateUsers   == {"A", "B"}
RateConnect == \E s \in Sockets, tok \in RateUsers :
                 /\ NewSocket(s)
                 /\ tok = "B" => clients["B"] = NoSock
                 /\ Connect(s, tok)
RateTick    == \E d \in {1, WS_RATE_WINDOW} :
                 /\ ClockSteps < MaxRateTicks
                 /\ d = 1 => now = wsRateLimits["A"].resetAt
                 /\ Tick(d)
RateSend    == \E s \in Sockets :
                 sock[s].user = "A" /\ Budget(s, WS_RATE_LIMIT + MaxOver)
                 /\ OnMessage(s, "message.send", SendPayload("B", "m1", 0))
RateReact   == \E s \in Sockets :
                 sock[s].user = "A" /\ Budget(s, WS_RATE_LIMIT + MaxOver)
                 /\ OnMessage(s, "message.react",
                              [id |-> "m1", peerId |-> "B", emoji |-> "+1"])

NextRate == RateConnect \/ RateTick \/ RateSend \/ RateReact
SpecRate == Init /\ [][NextRate]_vars

\* The step handles an inbound frame that is at least the 61st of its identity's
\* current rate window.
OverLimitFrame ==
  /\ "admitted" \in DOMAIN last'
  /\ wsRateLimits[last'.user].count >= WS_RATE_LIMIT
  /\ now <= wsRateLimits[last'.user].resetAt

NotDispatched ==
  /\ messages' = messages
  /\ contactSubscriptions' = contactSubscriptions
  /\ sock' = sock /\ clients' = clients /\ onlineUsers' = onlineUsers

\* C10 as stated: a frame past the 60th of its window changes neither the store
\* nor the subscriptions, exactly one rate_limited error frame is sent and it
\* goes to the connection the frame came in on, and that connection is open and
\* registered afterwards.
C10_AsClaimed ==
  [][OverLimitFrame =>
       /\ NotDispatched
       /\ out' = <<[to |-> last'.sock, frame |-> RateLimitedFrame]>>
       /\ sock'[last'.sock].state = "open"
       /\ clients'[last'.user] = last'.sock
    ]_vars

\* C10 amended: a frame past the 60th of its window changes neither the store,
\* the subscriptions, the sockets nor the registry. If the connection it came in
\* on is open, exactly one rate_limited error frame is sent, to that connection,
\* which stays open and registered; if that connection is already closing
\* (superseded by a newer one of the same identity) no frame is sent at all.
C10_RateLimitedDropped ==
  [][OverLimitFrame =>
       /\ NotDispatched
       /\ IF sock[last'.sock].state = "open"
          THEN /\ out' = <<[to |-> last'.sock, frame |-> RateLimitedFrame]>>
               /\ sock'[last'.sock].state = "open"
               /\ clients'[last'.user] = last'.sock
          ELSE out' = <<>>
    ]_vars

\* A's 61st frame of the window, a message.send of a message not stored, has
\* been answered with the error frame on A's open socket while B is connected.
C10_Witness ==
  /\ last.op = "message.send" /\ ~last.admitted
  /\ wsRateLimits["A"].count = WS_RATE_LIMIT + 1
  /\ last.payload.id \notin DOMAIN messages
  /\ sock[last.sock].state = "open"
  /\ clients["B"] # NoSock /\ sock[clients["B"]].state = "open"
  /\ out = <<[to |-> last.sock, frame |-> RateLimitedFrame]>>

\* ------------------------------------------------------------------ delivery
\* C11 as claimed: a message.send to another identity that persists a message
\* sets its deliveredAt,
\* or sends a message.delivered to the sender, only if the message.receive was
\* written to the recipient's registered socket, which is open.
C11_AsClaimed ==
  [][(/\ last'.op = "message.send" /\ last'.admitted
      /\ last'.payload.to # last'.user
      /\ last'.payload.id \notin DOMAIN messages
      /\ last'.payload.id \in DOMAIN messages') =>
       LET id  == last'.payload.id
           rcv == clients[last'.payload.to]
       IN (\/ messages'[id].deliveredAt # Null
           \/ \E i \in DOMAIN out' : out'[i].frame.type = "message.delivered") =>
            /\ rcv # NoSock /\ sock[rcv].state = "open"
            /\ Receives(out', rcv, id) # {}
    ]_vars

\* C12 as claimed: a message.read sent by an identity that is not the recipient
\* of a stored message it names leaves that message's readAt and deliveredAt as
\* they were.
C12_AsClaimed ==
  [][(last'.op = "message.read" /\ last'.admitted) =>
       \A id \in DOMAIN messages :
         (id \in Range(last'.payload.ids) /\ messages[id].to # last'.user) =>
           /\ messages'[id].readAt = messages[id].readAt
           /\ messages'[id].deliveredAt = messages[id].deliveredAt
    ]_vars

\* ------------------------------------------------------------------ SpecFrame
\* Frames of every shape: connections with and without a valid token are opened
\* and closed; A and B send well-formed frames, frames with a required member
\* missing, frames that claim to come from C, text that is too long or is not
\* JSON; the store works or throws.
FrUsers == {"A", "B"}

\* message.send payloads of A to B: plain, with a from of the client's choosing,
\* and with a required member missing
FrSendPayloads ==
  {SendPayload("B", id, now) : id \in MsgIds}
  \cup {[SendPayload("B", "m1", now) EXCEPT !.from = "C"],
        SendPayload(NoUser, "m1", now), SendPayload("B", NoId, now),
        SendPayload("B", "m1", Null)}

\* typing and call.* payloads: to a user or to nobody, claiming to come from C
FrForwardPayloads == {[to |-> to, from |-> "C"] : to \in {"B", NoUser}}

\* edit, pin and react payloads that lack a member their type requires
FrLackingFrames ==
  {Frame(type, [id |-> NoId, peerId |-> "A", emoji |-> "+1", env |-> "e2"]) :
     type \in {"message.edit", "message.pin", "message.react"}}
  \cup {Frame(type, [id |-> "m1", peerId |-> NoUser, emoji |-> "+1", env |-> "e2"]) :
          type \in {"message.edit", "message.pin", "message.react"}}
  \cup {Frame("message.react", [id |-> "m1", peerId |-> "A", emoji |-> NoEmoji])}

\* frames the handler gives up on before it looks at the type's members
FrUnreadableFrames ==
  {[Frame("message.send", SendPayload("B", "m1", now)) EXCEPT !.length = MaxFrameLength + 1],
   [Frame("message.send", SendPayload("B", "m1", now)) EXCEPT !.parses = FALSE],
   Frame(NoType, SendPayload("B", "m1", now)),
   Frame("message.send", NoPayload),
   Frame("bogus", SendPayload("B", "m1", now))}

FrConnect == \E s \in Sockets, tok \in FrUsers \cup {NoUser} : NewSocket(s) /\ Connect(s, tok)
FrOnClose == \E s \in Sockets : OnClose(s)
FrSend    == \E s \in Sockets, ok \in BOOLEAN : \E p \in FrSendPayloads :
               sock[s].user = "A" /\ Budget(s, MaxBurst)
               /\ OnFrame(s, [Frame("message.send", p) EXCEPT
                                !.length = IF p.from = "C" THEN MaxFrameLength ELSE 1], ok)
FrForward == \E s \in Sockets, type \in CallTypes \cup {"typing"} :
               \E p \in FrForwardPayloads :
                 Budget(s, MaxBurst) /\ OnFrame(s, Frame(type, p), TRUE)
FrRead    == \E s \in Sockets, ok \in BOOLEAN :
               sock[s].user = "B" /\ Budget(s, MaxBurst)
               /\ OnFrame(s, Frame("message.read", [peerId |-> "A", ids |-> <<"m1">>]), ok)
FrBad     == \E s \in Sockets : \E f \in FrLackingFrames \cup FrUnreadableFrames :
               Budget(s, MaxBurst) /\ OnFrame(s, f, TRUE)

NextFrame == FrConnect \/ FrOnClose \/ FrSend \/ FrForward \/ FrRead \/ FrBad
SpecFrame == Init /\ [][NextFrame]_vars

\* the step handles an inbound frame (admitted or not)
FrameStep == "admitted" \in DOMAIN last'

\* C13: every message.receive, typing and call.* frame a step sends, and every
\* message the step persists, carries as from the identity that the connection
\* the inbound frame came in on authenticated as, whatever the payload said.
C13_FromIsAuthenticated ==
  [][FrameStep =>
       LET u == sock[last'.sock].user IN
       /\ \A i \in DOMAIN out' :
            /\ out'[i].frame.type = "message.receive" => out'[i].frame.msg.from = u
            /\ out'[i].frame.type = "typing" => out'[i].frame.from = u
            /\ out'[i].frame.type \in CallTypes => out'[i].frame.payload.from = u
       /\ \A id \in DOMAIN messages' \ DOMAIN messages : messages'[id].from = u
    ]_vars

\* A's message.send whose payload says from: C has been persisted and forwarded
\* to B's open socket, both with from A.
C13_Witness ==
  /\ last.op = "message.send" /\ last.admitted /\ last.user = "A"
  /\ last.payload # NoPayload /\ last.payload.from = "C"
  /\ "m1" \in DOMAIN messages /\ messages["m1"].from = "A"
  /\ \E i \in DOMAIN out :
       /\ out[i].frame.type = "message.receive"
       /\ out[i].to = clients["B"] /\ sock[out[i].to].state = "open"
       /\ out[i].frame.msg.from = "A"

\* C14: a connection without a valid token is closed with the code 4001, which
\* is not the superseded code 4002; the step changes nothing else and sends
\* nothing. While such a socket exists it is not in the registry, no frame is
\* handled on it, and its close event changes nothing and sends nothing.
C14_UnauthenticatedRefused ==
  [][/\ (last'.op = "connect" /\ last'.user = NoUser) =>
          /\ sock'[last'.sock] = [state |-> "closing", user |-> NoUser,
                                  code |-> UnauthorizedCode]
          /\ UnauthorizedCode # SupersededCode
          /\ \A r \in Sockets \ {last'.sock} : sock'[r] = sock[r]
          /\ clients' = clients /\ onlineUsers' = onlineUsers /\ out' = <<>>
          /\ messages' = messages /\ contactSubscriptions' = contactSubscriptions
          /\ wsRateLimits' = wsRateLimits
     /\ \A s \in Sockets :
          (sock[s].state # "free" /\ sock[s].user = NoUser) =>
            /\ \A u \in Users : clients[u] # s /\ clients'[u] # s
            /\ ~(FrameStep /\ last'.sock = s)
            /\ (last'.op = "close" /\ last'.sock = s) =>
                 /\ clients' = clients /\ onlineUsers' = onlineUsers /\ out' = <<>>
                 /\ messages' = messages /\ contactSubscriptions' = contactSubscriptions
    ]_vars

\* A connection without a valid token has just been refused while A and B, who
\* have exchanged a message and so watch each other's presence, are connected.
C14_Witness ==
  /\ last.op = "connect" /\ last.user = NoUser
  /\ sock[last.sock].state = "closing" /\ sock[last.sock].code = UnauthorizedCode
  /\ Live(clients, sock, "A") /\ Live(clients, sock, "B")
  /\ contactSubscriptions["A"] = <<"B">> /\ "m1" \in DOMAIN messages

\* the types the message handler has a branch for
KnownTypes ==
  {"message.send", "typing", "message.delete", "message.edit", "message.pin",
   "message.react", "status.update", "message.read"} \cup CallTypes

\* The step handles an admitted frame that is too long, is not JSON, has no
\* string type or no payload, has a type with no branch, or lacks a member its
\* type requires.
MalformedFrameStep ==
  /\ FrameStep /\ last'.admitted
  /\ \/ last'.length > MaxFrameLength
     \/ ~last'.parses
     \/ last'.op = NoType
     \/ last'.payload = NoPayload
     \/ last'.op \notin KnownTypes
     \/ /\ last'.op = "message.send"
        /\ \/ last'.payload.to = NoUser
           \/ last'.payload.id = NoId
           \/ last'.payload.createdAt = Null
     \/ last'.op \in CallTypes \cup {"typing"} /\ last'.payload.to = NoUser
     \/ /\ last'.op \in {"message.edit", "message.pin"}
        /\ last'.payload.id = NoId \/ last'.payload.peerId = NoUser
     \/ last'.op = "message.react" /\ last'.payload.emoji = NoEmoji

\* C15: such a frame changes neither the table nor the subscriptions, no frame
\* is sent, and the sockets and the registry are as before, so the connection
\* it came in on is as able to receive the next frame as it was.
C15_MalformedDropped ==
  [][MalformedFrameStep =>
       /\ messages' = messages
       /\ contactSubscriptions' = contactSubscriptions
       /\ out' = <<>>
       /\ sock' = sock /\ clients' = clients /\ onlineUsers' = onlineUsers
    ]_vars

\* After a frame of A that was processed (m1 is stored), A's open, registered
\* connection has sent text that is not JSON, while B is connected.
C15_Witness ==
  /\ last.op = "message.send" /\ last.admitted /\ ~last.parses /\ last.user = "A"
  /\ wsRateLimits["A"].count = 2
  /\ "m1" \in DOMAIN messages
  /\ sock[last.sock].state = "open" /\ clients["A"] = last.sock
  /\ Live(clients, sock, "B")
  /\ out = <<>>

\* ------------------------------------------------------------------ SpecBatch
\* Read receipts with batches of every kind: A sends m1 and m2 to B, B sends
\* message.read frames; the clock moves.
\* the ids of read receipts: no array, an empty one, one id, the largest batch
\* allowed and one more
ReadBatches ==
  {[i \in {0} |-> "m1"], <<>>, <<"m1">>, <<"m2", "m1">>,
   [i \in 1..MaxReadBatch |-> "m1"], [i \in 1..(MaxReadBatch + 1) |-> "m1"]}

BatchConnect == \E s \in Sockets, tok \in {"A", "B"} : NewSocket(s) /\ Connect(s, tok)
BatchTick    == ClockSteps < MaxTicks /\ Tick(1)
BatchSend    == \E s \in Sockets, id \in MsgIds :
                  sock[s].user = "A" /\ Budget(s, MaxBurst)
                  /\ OnMessage(s, "message.send", SendPayload("B", id, now))
BatchRead    == \E s \in Sockets : \E ids \in ReadBatches :
                  sock[s].user = "B" /\ Budget(s, MaxBurst)
                  /\ OnMessage(s, "message.read", [peerId |-> "A", ids |-> ids])

NextBatch == BatchConnect \/ BatchTick \/ BatchSend \/ BatchRead
SpecBatch == Init /\ [][NextBatch]_vars

\* C17 as claimed: a message.pin or message.react that names no stored message,
\* or a message the caller is neither the sender nor the recipient of, leaves
\* the table as it was and sends no frame.
C17_AsClaimed ==
  [][(/\ last'.op \in {"message.pin", "message.react"} /\ last'.admitted
      /\ \/ last'.payload.id \notin DOMAIN messages
         \/ last'.user \notin {messages[last'.payload.id].from,
                                messages[last'.payload.id].to}) =>
       messages' = messages /\ out' = <<>>
    ]_vars

\* C18: a message.read whose ids is no array, is empty or has more than 100
\* entries changes no row and sends nothing; one with 1 to 100 ids sets readAt
\* and deliveredAt of the stored messages it names to the time of the frame,
\* changes nothing else in them and leaves every other row as it was.
C18_BatchBounds ==
  [][(last'.op = "message.read" /\ last'.admitted) =>
       LET ids == last'.payload.ids IN
       IF ~IsArray(ids) \/ Len(ids) = 0 \/ Len(ids) > 100
       THEN messages' = messages /\ out' = <<>>
       ELSE /\ DOMAIN messages' = DOMAIN messages
            /\ \A id \in DOMAIN messages :
                 IF id \in Range(ids)
                 THEN messages'[id] = [messages[id] EXCEPT !.readAt = now,
                                                           !.deliveredAt = now]
                 ELSE messages'[id] = messages[id]
    ]_vars

\* B's read receipt with the largest batch allowed, naming m1 only, has stamped
\* m1 and left m2, which A sent as well, unread; A's socket got the receipt.
C18_Witness ==
  /\ last.op = "message.read" /\ last.admitted
  /\ IsArray(last.payload.ids) /\ Len(last.payload.ids) = 100
  /\ DOMAIN messages = {"m1", "m2"}
  /\ messages["m1"].readAt = now /\ messages["m1"].deliveredAt = now
  /\ messages["m2"].readAt = Null
  /\ Len(out) = 1 /\ out[1].to = clients["A"] /\ out[1].frame.type = "message.read"

\* C19 as claimed: when B's message.read {peerId: A, ids: [m1]} is handled, m1
\* being a stored message of A to B that was delivered and A having an open
\* registered socket, exactly one frame is sent: a message.read with ids [m1]
\* to A's socket, whose readAt is the readAt now stored for m1 and is not
\* earlier than m1's createdAt.
C19_AsClaimed ==
  [][(/\ last'.op = "message.read" /\ last'.admitted /\ last'.user = "B"
      /\ last'.payload.peerId = "A" /\ last'.payload.ids = <<"m1">>
      /\ "m1" \in DOMAIN messages
      /\ messages["m1"].from = "A" /\ messages["m1"].to = "B"
      /\ messages["m1"].deliveredAt # Null
      /\ Live(clients, sock, "A")) =>
       /\ Len(out') = 1
       /\ out'[1].to = clients["A"]
       /\ out'[1].frame.type = "message.read" /\ out'[1].frame.ids = <<"m1">>
       /\ out'[1].frame.readAt = messages'["m1"].readAt
       /\ out'[1].frame.readAt >= messages'["m1"].createdAt
    ]_vars

\* ------------------------------------------------------------------ SpecPres
\* Presence among three identities: A sends to B and C sends to A, both with
\* the id m1, so that the later of the two sends meets a stored id; connections
\* are opened, closed by the peer, and their close events handled.
PresConnect   == \E s \in Sockets, tok \in Users : NewSocket(s) /\ Connect(s, tok)
PresPeerClose == \E s \in Sockets : PeerClose(s)
PresOnClose   == \E s \in Sockets : OnClose(s)
PresSend      == \E s \in Sockets, to \in {"A", "B"} :
                   /\ sock[s].user = IF to = "B" THEN "A" ELSE "C"
                   /\ Budget(s, MaxBurst)
                   /\ OnMessage(s, "message.send", SendPayload(to, "m1", now))

NextPres == PresConnect \/ PresPeerClose \/ PresOnClose \/ PresSend
SpecPres == Init /\ [][NextPres]_vars

\* a message between o and s is stored (no message is deleted in SpecPres, so
\* these are the messages ever persisted)
Exchanged(msgs, o, s) ==
  \E id \in DOMAIN msgs : {msgs[id].from, msgs[id].to} = {o, s}

\* C16 as claimed: a presence event is written only to the registered socket of
\* an identity that has exchanged a message with the identity the event is
\* about.
C16_AsClaimed ==
  [][\A i \in DOMAIN out' :
       out'[i].frame.type = "presence" =>
         \E o \in Users :
           /\ clients'[o] = out'[i].to
           /\ Exchanged(messages, o, out'[i].frame.userId)
    ]_vars

\* ------------------------------------------------------------------ SpecFail
\* The store failing: A sends m1 to B, A and B send edit, delete, pin and react
\* frames naming m1 and read receipts for it; during any of these frames the
\* store works or throws.
FailConnect == \E s \in Sockets, tok \in {"A", "B"} : NewSocket(s) /\ Connect(s, tok)
FailSend    == \E s \in Sockets, ok \in BOOLEAN :
                 sock[s].user = "A" /\ Budget(s, MaxBurst)
                 /\ OnFrame(s, Frame("message.send", SendPayload("B", "m1", now)), ok)
FailMutate  == \E s \in Sockets, ok \in BOOLEAN,
                  type \in {"message.edit", "message.delete", "message.pin", "message.react"} :
                 /\ Budget(s, MaxBurst)
                 /\ OnFrame(s, Frame(type, [id |-> "m1", emoji |-> "+1", env |-> "e2",
                                            peerId |-> IF sock[s].user = "A" THEN "B" ELSE "A"]),
                            ok)
FailRead    == \E s \in Sockets, ok \in BOOLEAN :
                 sock[s].user = "B" /\ Budget(s, MaxBurst)
                 /\ OnFrame(s, Frame("message.read", [peerId |-> "A", ids |-> <<"m1">>]), ok)

NextFail == FailConnect \/ FailSend \/ FailMutate \/ FailRead
SpecFail == Init /\ [][NextFail]_vars

\* the types whose branch runs a statement of the store
StoreTypes ==
  {"message.send", "message.delete", "message.edit", "message.pin", "message.react",
   "message.read"}

\* C20: an admitted frame during whose handling the store throws causes no
\* outbound frame and leaves every socket and the registry as they were, so
\* that the connection it came in on and the other connections are as able to
\* have their next frames handled as before.
C20_StoreFailureContained ==
  [][(FrameStep /\ last'.admitted /\ ~last'.storeOk /\ last'.op \in StoreTypes) =>
       /\ out' = <<>>
       /\ sock' = sock /\ clients' = clients /\ onlineUsers' = onlineUsers
    ]_vars

\* The store has thrown during B's read receipt for the stored, delivered
\* message m1, A and B being connected: A got no message.read, and both
\* sockets are open and registered.
C20_Witness ==
  /\ last.op = "message.read" /\ last.admitted /\ ~last.storeOk
  /\ "m1" \in DOMAIN messages /\ messages["m1"].deliveredAt # Null
  /\ messages["m1"].readAt = Null
  /\ Live(clients, sock, "A") /\ Live(clients, sock, "B")
  /\ clients["B"] = last.sock
  /\ out = <<>>


\* ------------------------------------------------------------------ SpecRelay
\* The frames the gateway relays or absorbs without the messages table: call
\* signalling from A to B, typing and status.update from B, with every socket's
\* outbound stream recorded. A connects once; B comes, goes and reconnects.
\* A client numbers its frames (n), as the frames of its identity reach the
\* server.
RelayFrames(s) ==
  LET n == wsRateLimits[sock[s].user].count + 1 IN
  IF sock[s].user = "A"
  THEN {Frame(type, [to |-> to, from |-> NoUser, renegotiate |-> FALSE, n |-> n]) :
          type \in CallTypes, to \in {"B", NoUser}}
       \cup {Frame("call.offer", [to |-> "B", from |-> NoUser, renegotiate |-> TRUE, n |-> n])}
  ELSE {Frame("typing", [to |-> to, from |-> NoUser, n |-> n]) : to \in {"A", NoUser}}
       \cup {Frame("status.update", [status |-> st]) :
               st \in {NoStatus, [text |-> "busy", length |-> 4],
                       [text |-> "long", length |-> MaxStatusLength + 1]}}

NextRelay ==
  \/ \E s \in Sockets, tok \in {"A", "B"} :
       NewSocket(s) /\ (tok = "A" => clients["A"] = NoSock) /\ Connect(s, tok)
  \/ \E s \in Sockets : sock[s].user = "B" /\ PeerClose(s)
  \/ \E s \in Sockets : OnClose(s)
  \/ \E s \in Sockets : Budget(s, MaxBurst) /\ \E f \in RelayFrames(s) : OnFrame(s, f, TRUE)

SpecRelay == InitWith(Registered, TRUE, FALSE) /\ [][NextRelay]_vars

\* C21: the frames a socket is handed reach it in the order in which the server
\* processed the inbound frames that caused them: the call frames in a socket's
\* stream carry strictly increasing frame numbers of their sender (in order,
\* none twice), and a step that forwards a call frame adds exactly that one
\* frame at the end of the target socket's stream.
C21_PerSocketOrder ==
  /\ [](\A s \in Sockets : \A i, j \in DOMAIN wire.q[s] :
          (i < j /\ wire.q[s][i].type \in CallTypes /\ wire.q[s][j].type \in CallTypes)
            => wire.q[s][i].payload.n < wire.q[s][j].payload.n)
  /\ [][(FrameStep /\ last'.op \in CallTypes /\ out' # <<>>) =>
          /\ Len(out') = 1
          /\ wire'.q[out'[1].to] = Append(wire.q[out'[1].to], out'[1].frame)
          /\ out'[1].frame.payload.n = last'.payload.n
          /\ \A s \in Sockets \ {out'[1].to} : wire'.q[s] = wire.q[s]
       ]_vars

\* One socket of B has been handed A's call.offer and then A's call.ice, A's
\* first and second frame, in that order.
C21_Witness ==
  \E s \in Sockets :
    /\ sock[s].user = "B"
    /\ Len(wire.q[s]) = 2
    /\ wire.q[s][1].type = "call.offer" /\ wire.q[s][1].payload.from = "A"
    /\ wire.q[s][2].type = "call.ice" /\ wire.q[s][2].payload.from = "A"
    /\ wire.q[s][1].payload.n = 1 /\ wire.q[s][2].payload.n = 2

\* C22: whether a call frame is forwarded is decided by the frame's to and by
\* the socket registered for it at that instant alone: the frame goes, with
\* from set, to that socket if it is open and nowhere otherwise, whatever call
\* frames came before; and no call frame (call.end included) changes a socket,
\* the registry, the presence data or the store.
C22_RelayIsStateless ==
  [][(FrameStep /\ last'.op \in CallTypes /\ last'.admitted) =>
       LET p == last'.payload
           t == Lookup(clients, p.to)
       IN /\ out' = IF t # NoSock /\ sock[t].state = "open"
                    THEN <<[to |-> t, frame |-> [type |-> last'.op,
                                                 payload |-> [p EXCEPT !.from = last'.user]]]>>
                    ELSE <<>>
          /\ sock' = sock /\ clients' = clients /\ onlineUsers' = onlineUsers
          /\ contactSubscriptions' = contactSubscriptions
          /\ messages' = messages /\ users' = users
    ]_vars

\* A socket of B has been handed A's call.end and then A's call.answer, the
\* first two frames A ever sent: an answer with no offer, after the end.
C22_Witness ==
  \E s \in Sockets :
    /\ sock[s].user = "B"
    /\ Len(wire.q[s]) = 2
    /\ wire.q[s][1].type = "call.end" /\ wire.q[s][1].payload.n = 1
    /\ wire.q[s][2].type = "call.answer" /\ wire.q[s][2].payload.n = 2
    /\ last.op = "call.answer"

\* C28: typing and status.update persist nothing: either leaves every user
\* record and every message as it was; a typing frame yields at most one
\* outbound frame, to the open socket registered for payload.to, carrying
\* only from.
C28_AsClaimed ==
  [][(FrameStep /\ last'.op \in {"typing", "status.update"}) =>
       /\ users' = users
       /\ messages' = messages
       /\ last'.op = "typing" =>
            /\ Len(out') <= 1
            /\ \A i \in DOMAIN out' :
                 /\ out'[i].to = Lookup(clients, last'.payload.to)
                 /\ sock[out'[i].to].state = "open"
                 /\ out'[i].frame = [type |-> "typing", from |-> last'.user]
    ]_vars

\* C23: admission is a fixed window per identity. A frame checked when its
\* identity has no window, or after the window has expired (now > resetAt), is
\* admitted and opens a window with count 1 that ends one window length later;
\* any other frame adds one to the count of the window, whichever connection of
\* the identity it came in on, and is admitted exactly if the count is then at
\* most 60; a frame that is not admitted is not dispatched; no other identity's
\* window changes, and no connection, close or clock step changes any window.
C23_FixedWindow ==
  [][IF FrameStep
     THEN LET u  == last'.user
              e  == wsRateLimits[u]
              e2 == wsRateLimits'[u]
          IN /\ IF e.count = 0 \/ now > e.resetAt
                THEN /\ last'.admitted
                     /\ e2 = [count |-> 1, resetAt |-> now + WS_RATE_WINDOW]
                ELSE /\ e2 = [count |-> e.count + 1, resetAt |-> e.resetAt]
                     /\ last'.admitted <=> e2.count <= WS_RATE_LIMIT
             /\ \A v \in Users \ {u} : wsRateLimits'[v] = wsRateLimits[v]
             /\ ~last'.admitted => /\ messages' = messages
                                   /\ contactSubscriptions' = contactSubscriptions
                                   /\ users' = users
     ELSE wsRateLimits' = wsRateLimits
    ]_vars

\* After A's window in which m1 was sent has expired, A's reaction toggle has
\* been admitted and has opened a new window with count 1.
C23_Witness ==
  /\ last.op = "message.react" /\ last.user = "A" /\ last.admitted
  /\ "m1" \in DOMAIN messages
  /\ now > WS_RATE_WINDOW
  /\ wsRateLimits["A"] = [count |-> 1, resetAt |-> now + WS_RATE_WINDOW]

\* C24: presence subscriptions are bidirectional and idempotent. In every
\* state O is among the subscribers of S exactly if S is among those of O, and
\* nobody is listed twice; a message.send from A with to, id and createdAt makes
\* A and the addressee subscribers of each other, changes no other
\* subscription, and changes nothing if they already were.
C24_Subscriptions ==
  /\ [](\A o, s \in Users :
          /\ o \in Range(contactSubscriptions[s]) <=> s \in Range(contactSubscriptions[o])
          /\ Len(contactSubscriptions[s]) = Cardinality(Range(contactSubscriptions[s])))
  /\ [][(FrameStep /\ last'.op = "message.send" /\ last'.admitted) =>
          LET a == last'.user
              b == last'.payload.to
          IN /\ a \in Range(contactSubscriptions'[b])
             /\ b \in Range(contactSubscriptions'[a])
             /\ \A u \in Users :
                  Range(contactSubscriptions'[u]) =
                    Range(contactSubscriptions[u])
                      \cup (IF u = a THEN {b} ELSE {}) \cup (IF u = b THEN {a} ELSE {})
             /\ (a \in Range(contactSubscriptions[b]) /\ b \in Range(contactSubscriptions[a]))
                  => contactSubscriptions' = contactSubscriptions
       ]_vars

\* A has sent m1 to B a second time; A and B are each other's only subscriber,
\* as after the first send.
C24_Witness ==
  /\ last.op = "message.send" /\ last.user = "A" /\ last.payload.to = "B"
  /\ wsRateLimits["A"].count = 2
  /\ "m1" \in DOMAIN messages /\ messages["m1"].from = "A"
  /\ contactSubscriptions["A"] = <<"B">>
  /\ contactSubscriptions["B"] = <<"A">>

\* ------------------------------------------------------------------ SpecTwo
\* Two stored messages and the mutations of the first: A sends m1 and m2 to B,
\* edits, pins and reacts to m1 and deletes either; B pins and reacts to m1 and
\* deletes it. Each names the other as peerId. Connections of A and of B
\* supersede one another.
TwoFrames(s) ==
  IF sock[s].user = "A"
  THEN {Frame("message.send", SendPayload("B", id, now)) : id \in MsgIds}
       \cup {Frame("message.delete", [id |-> id, peerId |-> "B"]) : id \in MsgIds}
       \cup {Frame("message.edit", [id |-> "m1", peerId |-> "B", env |-> "e2"]),
             Frame("message.pin", [id |-> "m1", peerId |-> "B"]),
             Frame("message.react", [id |-> "m1", peerId |-> "B", emoji |-> "+1"])}
  ELSE {Frame("message.delete", [id |-> "m1", peerId |-> "A"]),
        Frame("message.pin", [id |-> "m1", peerId |-> "A"]),
        Frame("message.react", [id |-> "m1", peerId |-> "A", emoji |-> "+1"])}

NextTwo ==
  \/ \E s \in Sockets, tok \in {"A", "B"} : NewSocket(s) /\ Connect(s, tok)
  \/ \E s \in Sockets : OnClose(s)
  \/ \E s \in Sockets :
       /\ Budget(s, IF sock[s].user = "A" THEN MaxTwo ELSE MaxBurst)
       /\ \E f \in TwoFrames(s) : OnFrame(s, f, TRUE)

SpecTwo == Init /\ [][NextTwo]_vars

\* C25: a message.edit by the sender of a stored message changes only that
\* message's envelopes and its editedAt: its id, from, to, createdAt,
\* deliveredAt, readAt, pinned and reactions stay, and so does every other
\* message; a message.delete removes at most the message it names and changes
\* no other message.
C25_EditAndDeleteAreLocal ==
  [][(FrameStep /\ last'.admitted) =>
       LET id == last'.payload.id IN
       /\ (/\ last'.op = "message.edit"
           /\ id \in DOMAIN messages
           /\ messages[id].from = last'.user) =>
             /\ DOMAIN messages' = DOMAIN messages
             /\ \A i \in DOMAIN messages \ {id} : messages'[i] = messages[i]
             /\ messages'[id].env = last'.payload.env
             /\ messages'[id].editedAt = now
             /\ \A f \in {"id", "from", "to", "createdAt", "contentType", "deliveredAt",
                          "readAt", "pinned", "reactions"} :
                  messages'[id][f] = messages[id][f]
       /\ last'.op = "message.delete" =>
             /\ DOMAIN messages \ {id} \subseteq DOMAIN messages'
             /\ DOMAIN messages' \subseteq DOMAIN messages
             /\ \A i \in DOMAIN messages' : messages'[i] = messages[i]
    ]_vars

\* A has edited m1, which B had pinned and reacted to: m1 has the new envelopes
\* and an edit time and is still pinned, with B's reaction; m2 is as it was sent.
C25_Witness ==
  /\ last.op = "message.edit" /\ last.user = "A"
  /\ MsgIds \subseteq DOMAIN messages
  /\ messages["m1"].env = "e2" /\ messages["m1"].editedAt = now
  /\ messages["m1"].pinned
  /\ messages["m1"].reactions = [e \in {"+1"} |-> <<"B">>]
  /\ messages["m2"].env = "e1" /\ messages["m2"].editedAt = Null

\* The step is a message.edit by the sender, or a message.pin or message.react
\* by the sender or the recipient, of a stored message.
Mutation ==
  /\ FrameStep /\ last'.admitted
  /\ last'.op \in {"message.edit", "message.pin", "message.react"}
  /\ last'.payload.id \in DOMAIN messages
  /\ last'.user \in (IF last'.op = "message.edit"
                     THEN {messages[last'.payload.id].from}
                     ELSE {messages[last'.payload.id].from, messages[last'.payload.id].to})

\* The frame that tells of the mutation, with the state the store now has
ResultFrame ==
  LET id == last'.payload.id IN
  CASE last'.op = "message.edit" ->
         [type |-> "message.edited", msg |-> [messages'[id] EXCEPT !.from = last'.user]]
    [] last'.op = "message.pin" ->
         [type |-> "message.pinned", id |-> id, pinned |-> messages'[id].pinned]
    [] last'.op = "message.react" ->
         [type |-> "message.reacted", id |-> id, reactions |-> messages'[id].reactions]

\* The store has the mutation: the new envelopes and edit time, the flipped pin,
\* the toggled reaction
Stands ==
  LET id == last'.payload.id IN
  CASE last'.op = "message.edit" ->
         messages'[id].env = last'.payload.env /\ messages'[id].editedAt = now
    [] last'.op = "message.pin" -> messages'[id].pinned = ~messages[id].pinned
    [] last'.op = "message.react" ->
         messages'[id].reactions =
           toggledReactions(messages[id].reactions, last'.user, last'.payload.emoji)

\* C26 as claimed: on such a mutation the result frame is sent to the socket the
\* sender's frame came in on, and to the peer's socket if the peer has an open
\* registered socket, and to no other; the store has the mutation.
C26_AsClaimed ==
  [][Mutation =>
       LET peer == Lookup(clients, last'.payload.peerId) IN
       /\ Stands
       /\ out' = (IF peer # NoSock /\ sock[peer].state = "open"
                  THEN <<[to |-> peer, frame |-> ResultFrame]>> ELSE <<>>)
                 \o <<[to |-> last'.sock, frame |-> ResultFrame]>>
    ]_vars

\* C26 amended: on such a mutation the store has the mutation, and the result frame
\* is sent to the peer's registered socket if that is open and to the socket
\* the sender's frame came in on if that is open; a sender's socket that a
\* newer connection of the sender has superseded gets nothing, and neither
\* does the newer one.
C26_ResultBroadcast ==
  [][Mutation =>
       LET peer == Lookup(clients, last'.payload.peerId) IN
       /\ Stands
       /\ out' = (IF peer # NoSock /\ sock[peer].state = "open"
                  THEN <<[to |-> peer, frame |-> ResultFrame]>> ELSE <<>>)
                 \o (IF sock[last'.sock].state = "open"
                     THEN <<[to |-> last'.sock, frame |-> ResultFrame]>> ELSE <<>>)
    ]_vars

\* A has reacted to m1 while B has no connection: the reaction is stored and
\* the only frame sent is the message.reacted on A's own socket.
C26_Witness ==
  /\ last.op = "message.react" /\ last.user = "A"
  /\ clients["B"] = NoSock
  /\ "m1" \in DOMAIN messages
  /\ messages["m1"].reactions = [e \in {"+1"} |-> <<"A">>]
  /\ out = <<[to |-> last.sock,
              frame |-> [type |-> "message.reacted", id |-> "m1",
                         reactions |-> messages["m1"].reactions]]>>

\* C27: a message.pin by the sender or the recipient of a stored message flips
\* that message's pinned flag and changes nothing else in the table; and for
\* every stored message, two consecutive toggles by its parties, the same one
\* twice or one after the other, leave the table as it was.
C27_PinToggles ==
  /\ [][(/\ FrameStep /\ last'.admitted /\ last'.op = "message.pin"
         /\ last'.payload.id \in DOMAIN messages
         /\ last'.user \in {messages[last'.payload.id].from, messages[last'.payload.id].to})
          => messages' = [messages EXCEPT ![last'.payload.id].pinned = ~@]
       ]_vars
  /\ [](\A id \in DOMAIN messages :
          \A u1, u2 \in {messages[id].from, messages[id].to} :
            /\ togglePin(messages, id, u1).msgs[id].pinned = ~messages[id].pinned
            /\ togglePin(togglePin(messages, id, u1).msgs, id, u2).msgs = messages)

\* B, with its first frame, has pinned m1, which was pinned already: m1 is
\* unpinned again, as A sent it, and both are told so.
C27_Witness ==
  /\ last.op = "message.pin" /\ last.user = "B" /\ last.payload.id = "m1"
  /\ wsRateLimits["B"].count = 1
  /\ "m1" \in DOMAIN messages /\ ~messages["m1"].pinned
  /\ Len(out) = 2
  /\ \A i \in DOMAIN out :
       out[i].frame = [type |-> "message.pinned", id |-> "m1", pinned |-> FALSE]

\* ------------------------------------------------------------------ SpecVerify
\* A server over a users table without records, and two identities whose tokens
\* are older than the table: A and B connect, A sends m1 to B and B sends m2 to
\* A, B reacts to m1 and reads both; then a phone is verified, which creates the
\* user C and migrates what A and B left, and is verified again. The store may
\* throw in the statements of a read, a reaction or a migration.
VerifyFrames(s) ==
  IF sock[s].user = "A"
  THEN {Frame("message.send", SendPayload("B", "m1", now))}
  ELSE {Frame("message.send", SendPayload("A", "m2", now)),
        Frame("message.react", [id |-> "m1", peerId |-> "A", emoji |-> "+1"]),
        Frame("message.read", [peerId |-> "A", ids |-> <<"m1", "m2">>])}

NextVerify ==
  \/ \E s \in Sockets, tok \in {"A", "B"} :
       NewSocket(s) /\ clients[tok] = NoSock /\ Connect(s, tok)
  \/ \E d \in {1} : ClockSteps < MaxTicks /\ Tick(d)
  \/ \E s \in Sockets, ok \in BOOLEAN :
       Budget(s, MaxTwo) /\ \E f \in VerifyFrames(s) : OnFrame(s, f, ok)
  \/ \E codeOk, storeOk \in BOOLEAN : VerifySmsCode("+1", codeOk, "C", storeOk)

SpecVerify == InitWith([u \in {} |-> NoStatus], FALSE, FALSE) /\ [][NextVerify]_vars

\* C29 as claimed: what a reader finds after any step is never a partly applied
\* mutation. A message.read has stamped all the stored messages of its batch or
\* none; a message.react has toggled the reaction or left the map alone; and
\* after a verification every identity that had no user record is either gone
\* from both the from and the to fields or still in all the fields it was in.
C29_AsClaimed ==
  [][/\ (FrameStep /\ last'.op = "message.read") =>
          \/ messages' = messages
          \/ \A i \in DOMAIN last'.payload.ids :
               last'.payload.ids[i] \in DOMAIN messages =>
                 messages'[last'.payload.ids[i]].readAt = now
     /\ (FrameStep /\ last'.op = "message.react") =>
          \/ messages' = messages
          \/ messages'[last'.payload.id].reactions =
               toggledReactions(messages[last'.payload.id].reactions,
                                last'.user, last'.payload.emoji)
     /\ ("created" \in DOMAIN last') =>
          \A old \in findOrphanedUserIds(messages, users) :
            \/ \A i \in DOMAIN messages' : old \notin {messages'[i].from, messages'[i].to}
            \/ \A i \in DOMAIN messages' :
                 /\ messages'[i].from = old <=> messages[i].from = old
                 /\ messages'[i].to = old <=> messages[i].to = old
    ]_vars

\* C30: a verification that creates a user U and runs to its end replaces, in
\* every message, each from and each to that named an identity without a user
\* record by U and changes nothing else, so that every message then names
\* identities with a record only; a verification that creates no user (the
\* phone has one, or the code is wrong) changes neither messages nor users.
C30_MigratesOrphans ==
  [][("created" \in DOMAIN last') =>
       IF last'.created
       THEN ~last'.threw =>
              /\ DOMAIN users' = DOMAIN users \cup {last'.user}
              /\ DOMAIN messages' = DOMAIN messages
              /\ \A i \in DOMAIN messages :
                   messages'[i] =
                     [messages[i] EXCEPT
                        !.from = IF @ \in DOMAIN users THEN @ ELSE last'.user,
                        !.to   = IF @ \in DOMAIN users THEN @ ELSE last'.user]
              /\ \A i \in DOMAIN messages' :
                   {messages'[i].from, messages'[i].to} \subseteq DOMAIN users'
       ELSE messages' = messages /\ users' = users
    ]_vars

\* The verification has created C: m1, sent by A to B, and m2, sent by B to A,
\* while neither had a user record, are now from C to C, m1 with B's reaction
\* and both with the read time they had.
C30_Witness ==
  /\ last.op = "verify" /\ last.created /\ ~last.threw /\ last.user = "C"
  /\ DOMAIN users = {"C"}
  /\ DOMAIN messages = MsgIds
  /\ \A i \in MsgIds : messages[i].from = "C" /\ messages[i].to = "C"
                       /\ messages[i].readAt # Null
  /\ messages["m1"].reactions = [e \in {"+1"} |-> <<"B">>]

\* ------------------------------------------------------------------ SpecHttp
\* The HTTP routes that read the store: A, B and C connect once; A and B send
\* each other m1 and m2, and C sends them to A, with creation times of the
\* clients' choosing, equal or not; A fetches pages of its conversation with B
\* and its chat summary.
NextHttp ==
  \/ \E s \in Sockets, tok \in Users :
       NewSocket(s) /\ clients[tok] = NoSock /\ Connect(s, tok)
  \/ \E s \in Sockets, id \in MsgIds, createdAt \in {0, 1} :
       /\ Budget(s, MaxBurst)
       /\ OnMessage(s, "message.send",
                    SendPayload(IF sock[s].user = "A" THEN "B" ELSE "A", id, createdAt))
  \/ \E limit \in {1, 2}, offset \in 0..2 : GetMessages("A", "B", limit, offset)
  \/ GetChats("A")

SpecHttp == Init /\ [][NextHttp]_vars

\* C31: a page of the conversation of user and peer holds messages of that
\* conversation only, each once, oldest first, as they are stored; it has limit
\* of them, or as many as rank below offset; offset messages of the
\* conversation that are not on the page are at least as new as all on it,
\* and the others at most as old. And for every order newest-first in which the
\* table yields a conversation, the pages at offsets 0, limit, 2*limit, ...
\* together hold every message of the conversation exactly once.
C31_Pages ==
  /\ [][(last'.op = "GET /messages") =>
          LET r    == last'.result
              conv == {i \in DOMAIN messages :
                         {messages[i].from, messages[i].to} = {last'.user, last'.peer}}
              on   == {r[i].id : i \in DOMAIN r}
              n    == Cardinality(conv)
          IN /\ on \subseteq conv
             /\ \A i \in DOMAIN r : r[i] = messages[r[i].id]
             /\ \A i, j \in DOMAIN r : i < j => /\ r[i].id # r[j].id
                                                /\ r[i].createdAt <= r[j].createdAt
             /\ Len(r) = Min(last'.limit, n - Min(last'.offset, n))
             /\ \E newer \in SUBSET (conv \ on) :
                  /\ Cardinality(newer) = Min(last'.offset, n)
                  /\ \A x \in newer : \A y \in on :
                       messages[x].createdAt >= messages[y].createdAt
                  /\ \A x \in conv \ (on \cup newer) : \A y \in on :
                       messages[x].createdAt <= messages[y].createdAt
       ]_vars
  /\ [](\A u, v \in Users : \A order \in paginatedMessages(messages, u, v) :
          \A limit \in {1, 2} :
            LET pages == Concat([k \in 1..(Len(order) + 1) |->
                                   getMessagesFor(messages, order, limit, (k - 1) * limit)])
            IN /\ Len(pages) = Len(order)
               /\ {pages[i].id : i \in DOMAIN pages} = Range(order))

\* A has been handed the second page of one message of its conversation with
\* B: of m1 and m2, stored with different creation times, the older one.
C31_Witness ==
  /\ last.op = "GET /messages" /\ last.limit = 1 /\ last.offset = 1
  /\ DOMAIN messages = MsgIds
  /\ {messages["m1"].from, messages["m1"].to} = {"A", "B"}
  /\ {messages["m2"].from, messages["m2"].to} = {"A", "B"}
  /\ messages["m1"].createdAt < messages["m2"].createdAt
  /\ last.result = <<messages["m1"]>>

\* C32 as claimed: the chat summary of a user has one entry for each peer it
\* has a stored message with and no other, at most 50; each entry carries the
\* createdAt and the contentType of a message with that peer than which none
\* is newer; and the entries come newest first.
C32_AsClaimed ==
  [][(last'.op = "chats") =>
       LET r      == last'.result
           u      == last'.user
           mine   == {i \in DOMAIN messages : u \in {messages[i].from, messages[i].to}}
           with(p) == {i \in mine : {messages[i].from, messages[i].to} = {u, p}}
       IN /\ Len(r) <= ChatListLimit
          /\ {r[k].peerId : k \in DOMAIN r} = {p \in Users : with(p) # {}}
          /\ \A a, b \in DOMAIN r :
               a < b => /\ r[a].peerId # r[b].peerId
                        /\ r[a].lastMessageAt >= r[b].lastMessageAt
          /\ \A k \in DOMAIN r :
               \E i \in with(r[k].peerId) :
                 /\ r[k].lastMessageAt = messages[i].createdAt
                 /\ r[k].lastContentType = messages[i].contentType
                 /\ \A j \in with(r[k].peerId) : messages[j].createdAt <= messages[i].createdAt
    ]_vars

\* ------------------------------------------------------------------ SpecLogin
MinLoginLength == 3
MaxLoginLength == 20

\* A uniqueness check that looks at the caller's own record only
isLoginTakenByCaller(us, login, excludeUserId) ==
  \E u \in DOMAIN us : us[u].login = login /\ u = excludeUserId

\* stmts.isLoginTaken: SELECT 1 FROM users WHERE login = ? AND id != ?
isLoginTaken(us, login, excludeUserId) ==
  \E u \in DOMAIN us : us[u].login = login /\ u # excludeUserId

\* POST /users/login by the bearer of userId's token, with the body's login.
\* normalizeLogin trims the white space at both ends and lowers the case;
\* isValidLogin is /^[a-z0-9._]{3,20}$/.
ClaimLogin(userId, login) ==
  LET inked == {i \in DOMAIN login : login[i] # " "}
      first == CHOOSE i \in inked : \A j \in inked : i <= j
      final == CHOOSE i \in inked : \A j \in inked : j <= i
      trim == IF inked = {} THEN <<>> ELSE SubSeq(login, first, final)
      toLowerCase(c) == CASE c = "A" -> "a" [] c = "B" -> "b" [] OTHER -> c
      normalized == [i \in DOMAIN trim |-> toLowerCase(trim[i])]
      isValidLogin == /\ Len(normalized) \in MinLoginLength..MaxLoginLength
                      /\ \A i \in DOMAIN normalized :
                           normalized[i] \in {"a", "b", "0", ".", "_"}
      status == IF login = <<>> THEN "login_required"
                ELSE IF ~isValidLogin THEN "login_invalid"
                ELSE IF isLoginTaken(users, normalized, userId) THEN "login_taken"
                ELSE IF userId \notin DOMAIN users THEN "not_found"
                ELSE "ok"
  IN
  /\ users' = IF status = "ok" THEN [users EXCEPT ![userId].login = normalized] ELSE users
  /\ last' = [op |-> "login", user |-> userId, login |-> login, status |-> status,
              normalized |-> normalized]
  /\ out' = <<>>
  /\ UNCHANGED <<sock, clients, onlineUsers, contactSubscriptions, wsRateLimits, unswept, messages,
                 rowid, now, wire, emitted>>

\* Request bodies: logins that normalize to the same and to different logins,
\* and logins the route refuses
LoginInputs ==
  {<<"a", "b", "0">>, <<"A", "b", "0">>, <<" ", "a", "B", "0", " ">>, <<"a", ".", "_">>,
   <<"a", "b">>, <<"a", " ", "b">>, <<"a", "b", "!">>, <<" ">>, <<>>}

\* A users table with the records of A and B; C holds a token and has no
\* record. Any of them claims logins; A, connected, also sets its status, which
\* saves A's whole record.
NextLogin ==
  \/ \E userId \in Users, login \in LoginInputs : ClaimLogin(userId, login)
  \/ \E s \in Sockets : NewSocket(s) /\ clients["A"] = NoSock /\ Connect(s, "A")
  \/ \E s \in Sockets, st \in {[text |-> "busy", length |-> 4], [text |-> "away", length |-> 4]} :
       Budget(s, MaxBurst) /\ OnFrame(s, Frame("status.update", [status |-> st]), TRUE)

SpecLogin == InitWith([u \in {"A", "B"} |-> Registered[u]], FALSE, FALSE) /\ [][NextLogin]_vars

\* C33: no two users ever hold the same login, and every login held is in
\* normal form (what normalizing it again gives); a claim for a login another
\* user holds is answered login_taken and leaves the users table as it was; a
\* user claiming the login it holds is answered ok and keeps it.
C33_LoginsUnique ==
  /\ [](\A u, v \in DOMAIN users :
          /\ (u # v /\ users[u].login # NoLogin) => users[u].login # users[v].login
          /\ \A i \in DOMAIN users[u].login :
               users[u].login[i] \in {"a", "b", "0", ".", "_"})
  /\ [][last'.op = "login" =>
         /\ (\E v \in DOMAIN users : v # last'.user /\ users[v].login = last'.normalized
                                      /\ last'.normalized # NoLogin)
              => (last'.status = "login_taken" /\ users' = users)
         /\ (last'.user \in DOMAIN users /\ users[last'.user].login # NoLogin
              /\ users[last'.user].login = last'.normalized)
              => (last'.status = "ok" /\ users' = users)
         /\ last'.status = "ok" => users'[last'.user].login = last'.normalized
         /\ last'.status # "ok" => users' = users
      ]_vars

\* B, who holds "a._", has just been refused the login "ab0" that A holds,
\* asked for in capitals
C33_Witness ==
  /\ last.op = "login" /\ last.user = "B" /\ last.status = "login_taken"
  /\ last.login = <<"A", "b", "0">>
  /\ users["A"].login = <<"a", "b", "0">>
  /\ users["B"].login = <<"a", ".", "_">>

\* ------------------------------------------------------------------ SpecEarly
\* The earlier gateway (attachWebSocket before the registry, the subscriptions
\* and the rate limiter were added): its only state is the clients map. A
\* socket.send on a socket that is not open delivers nothing.

\* broadcastPresence(userId, isOnline): to every registered client
broadcastPresence(cl, sk, userId, isOnline) ==
  LET order == <<"A", "B", "C">> IN
  Concat([i \in 1..Len(order) |->
            SendTo(cl, sk, order[i],
                   [type |-> "presence", userId |-> userId, isOnline |-> isOnline])])

\* wss.on("connection") of the earlier gateway: the new socket takes the
\* identity's place in the map; the socket that held it is left open.
EarlyConnect(s, tok) ==
  /\ sock[s].state = "free"
  /\ IF tok = NoUser
     THEN /\ sock' = [sock EXCEPT ![s] = [state |-> "closing", user |-> NoUser, code |-> 0]]
          /\ out' = <<>>
          /\ UNCHANGED clients
     ELSE LET sk == [sock EXCEPT ![s] = [state |-> "open", user |-> tok, code |-> 0]]
              cl == [clients EXCEPT ![tok] = s]
          IN /\ sock' = sk
             /\ clients' = cl
             /\ out' = broadcastPresence(cl, sk, tok, TRUE)
  /\ last' = [op |-> "connect", sock |-> s, user |-> tok]
  /\ wire' = Written(wire, sock', out')
  /\ emitted' = Emitted(emitted, out')
  /\ UNCHANGED <<onlineUsers, contactSubscriptions, wsRateLimits, unswept, messages, rowid, users, now>>

\* socket.on("message") of the earlier gateway, for the frames of well-formed
\* payload: message.send, call.*, status.update and message.read
EarlyOnMessage(s, type, payload) ==
  /\ sock[s].user # NoUser /\ sock[s].state = "open"
  /\ LET userId == sock[s].user
         deliveredAt == IF Lookup(clients, payload.to) # NoSock THEN now ELSE Null
         message == Stamped(payload, userId, deliveredAt)
         stores == type = "message.send" /\ ~Stored(messages, payload.id)
     IN /\ messages' =
             IF stores THEN insertMessage(messages, toRow(message))
             ELSE IF type = "message.read" /\ IsArray(payload.ids) /\ Len(payload.ids) > 0
             THEN updateMessages(messages, payload.ids,
                                 [readAt |-> now, deliveredAt |-> now])
             ELSE messages
        /\ rowid' = [i \in DOMAIN messages' |->
                       IF i \in DOMAIN messages THEN rowid[i]
                       ELSE 1 + (CHOOSE r \in {rowid[j] : j \in DOMAIN messages} \cup {0} :
                                   \A k \in DOMAIN messages : rowid[k] <= r)]
        /\ users' = IF type = "status.update" /\ userId \in DOMAIN users
                     THEN [users EXCEPT ![userId].status = payload.status]
                     ELSE users
        /\ out' =
             IF stores
             THEN SendTo(clients, sock, payload.to,
                         [type |-> "message.receive", msg |-> message])
                  \o (IF deliveredAt # Null
                      THEN SendTo(clients, sock, userId,
                                  [type |-> "message.delivered", id |-> payload.id,
                                   deliveredAt |-> deliveredAt])
                      ELSE <<>>)
             ELSE IF type \in CallTypes
             THEN SendTo(clients, sock, payload.to,
                         [type |-> type, payload |-> [payload EXCEPT !.from = userId]])
             ELSE IF type = "message.read" /\ IsArray(payload.ids) /\ Len(payload.ids) > 0
             THEN SendTo(clients, sock, payload.peerId,
                         [type |-> "message.read", ids |-> payload.ids, readAt |-> now])
             ELSE <<>>
        /\ last' = [op |-> type, sock |-> s, user |-> userId, payload |-> payload]
  /\ wire' = Written(wire, sock, out')
  /\ UNCHANGED <<sock, clients, onlineUsers, contactSubscriptions, wsRateLimits, unswept, now, emitted>>

\* A close handler that removes the entry only of the socket that holds it
EarlyOnCloseIfCurrent(s) == OnClose(s)

\* socket.on("close") of the earlier gateway: clients.delete(userId), whatever
\* socket the entry holds, then broadcastPresence(userId, false)
EarlyOnClose(s) ==
  /\ sock[s].state \in {"closing", "closed"}
  /\ LET userId == sock[s].user
         sk     == [sock EXCEPT ![s] = FreeSock]
     IN /\ sock' = sk
        /\ IF userId # NoUser
           THEN LET cl == [clients EXCEPT ![userId] = NoSock]
                IN /\ clients' = cl
                   /\ out' = broadcastPresence(cl, sk, userId, FALSE)
           ELSE /\ out' = <<>>
                /\ UNCHANGED clients
        /\ last' = [op |-> "close", sock |-> s, user |-> userId]
  /\ wire' = Written(wire, sock', out')
  /\ emitted' = Emitted(emitted, out')
  /\ UNCHANGED <<onlineUsers, contactSubscriptions, wsRateLimits, unswept, messages, rowid, users, now>>

\* A and B connect, A more than once (the client mounts its socket effect
\* twice); the clients close sockets and the close events follow; each sends
\* the other call signalling, messages, read receipts and a status.
EarlyFrames(s) ==
  LET peer == IF sock[s].user = "A" THEN "B" ELSE "A" IN
  {Frame(type, [to |-> peer, from |-> NoUser]) : type \in {"call.offer", "call.end"}}
  \cup {Frame("message.send", SendPayload(peer, "m1", now)),
        Frame("message.read", [peerId |-> peer, ids |-> <<"m1">>]),
        Frame("status.update", [status |-> [text |-> "busy", length |-> 4]])}

NextEarly ==
  \/ \E s \in Sockets, tok \in {"A", "B", NoUser} :
       NewSocket(s) /\ (tok = "B" => clients["B"] = NoSock) /\ EarlyConnect(s, tok)
  \/ \E s \in Sockets : PeerClose(s)
  \/ \E s \in Sockets : EarlyOnClose(s)
  \/ \E s \in Sockets : \E f \in EarlyFrames(s) : EarlyOnMessage(s, f.type, f.payload)

SpecEarly == Init /\ [][NextEarly]_vars

\* C34: in the earlier gateway the close event of a socket that no longer
\* holds its identity's registry entry, fired while the socket that holds it is
\* open, removes the entry, leaves that socket open and tells every registered
\* client that the identity is offline; and for as long as an identity has no
\* registry entry, no call frame, message or read receipt addressed to it is
\* handed to any of its sockets, open or not.
C34_StaleCloseUnregisters ==
  /\ [][\A s \in Sockets :
          (/\ last'.op = "close" /\ last'.sock = s /\ sock[s].user # NoUser
           /\ clients[sock[s].user] \notin {s, NoSock}
           /\ sock[clients[sock[s].user]].state = "open")
          => /\ clients'[sock[s].user] = NoSock
             /\ sock'[clients[sock[s].user]].state = "open"
             /\ \A v \in Users :
                  (clients'[v] # NoSock /\ sock'[clients'[v]].state = "open") =>
                    \E i \in DOMAIN out' :
                      out'[i] = [to |-> clients'[v],
                                 frame |-> [type |-> "presence", userId |-> sock[s].user,
                                            isOnline |-> FALSE]]
      ]_vars
  /\ [][\A u \in Users :
          (/\ last'.op \in CallTypes \cup {"message.send", "message.read"}
           /\ u = (IF last'.op = "message.read" THEN last'.payload.peerId
                   ELSE last'.payload.to)
           /\ clients[u] = NoSock)
          => \A i \in DOMAIN out' : sock[out'[i].to].user # u
      ]_vars

\* B's call.offer to A has just been forwarded to nobody: A's second socket is
\* open, and the close event of A's first socket has removed A's entry
C34_Witness ==
  /\ last.op = "call.offer" /\ last.user = "B" /\ last.payload.to = "A"
  /\ out = <<>>
  /\ clients["A"] = NoSock
  /\ \E s \in Sockets : sock[s].user = "A" /\ sock[s].state = "open"

\* ------------------------------------------------------------------ SpecSeen
\* The presence frames observed: A and B connect, A also over a connection it
\* has, sockets close and their close events follow, and A sends m1 to B,
\* which subscribes each to the other.
NextSeen ==
  \/ \E s \in Sockets, tok \in {"A", "B"} :
       NewSocket(s) /\ (tok = "B" => clients["B"] = NoSock) /\ Connect(s, tok)
  \/ \E s \in Sockets : PeerClose(s)
  \/ \E s \in Sockets : OnClose(s)
  \/ \E s \in Sockets :
       sock[s].user = "A" /\ Budget(s, MaxBurst)
       /\ OnMessage(s, "message.send", SendPayload("B", "m1", now))

SpecSeen == InitWith(Registered, FALSE, TRUE) /\ [][NextSeen]_vars

\* C35 as claimed: for every identity of which a presence event was emitted,
\* the most recent one says online exactly when the identity has a registered
\* connection.
C35_AsClaimed ==
  \A u \in Users :
    emitted[u] # "nothing" => (emitted[u] = "online" <=> clients[u] # NoSock)

\* C35, amended: a presence event says what the registry holds after the step
\* that emits it. An online event about u is emitted only by a bind of u, which
\* registers the new socket; an offline event only by the close event that
\* removes u's entry; u's entry appears only at a bind of u and goes only at a
\* close event of the socket it holds; and a bind or a removal hands the event
\* to the registered open socket of every subscriber of u and to no other.
C35_EventsFollowBindings ==
  [][\A u \in Users :
       /\ \A i \in DOMAIN out' :
            (out'[i].frame.type = "presence" /\ out'[i].frame.userId = u) =>
              IF out'[i].frame.isOnline
              THEN last'.op = "connect" /\ last'.user = u /\ clients'[u] = last'.sock
              ELSE /\ last'.op = "close" /\ last'.user = u
                   /\ clients[u] = last'.sock /\ clients'[u] = NoSock
       /\ (clients[u] = NoSock /\ clients'[u] # NoSock) =>
            last'.op = "connect" /\ last'.user = u
       /\ (clients[u] # NoSock /\ clients'[u] = NoSock) =>
            last'.op = "close" /\ last'.user = u /\ clients[u] = last'.sock
       /\ ((last'.op = "connect" /\ last'.user = u) \/ clients'[u] # clients[u]) =>
            \A s \in Sockets :
              (\E i \in DOMAIN out' :
                 out'[i].to = s /\ out'[i].frame.type = "presence"
                 /\ out'[i].frame.userId = u
                 /\ out'[i].frame.isOnline = (clients'[u] # NoSock))
              <=> (/\ sock'[s].state = "open"
                   /\ \E v \in Range(contactSubscriptions[u]) : clients'[v] = s)
    ]_vars

\* B has just been told that A is offline: the close event of the socket that
\* held A's entry removed it
C35_Witness ==
  /\ last.op = "close" /\ last.user = "A"
  /\ clients["A"] = NoSock
  /\ emitted["A"] = "offline"
  /\ \E i \in DOMAIN out : out[i].to = clients["B"] /\ ~out[i].frame.isOnline

\* ------------------------------------------------------------------ new messages
\* C36 as claimed: a message that a message.send has just stored has no readAt
\* and no editedAt, is not pinned, has no reactions, and its deliveredAt is
\* unset or the server's time, whatever the payload carried.
C36_AsClaimed ==
  [][(/\ FrameStep /\ last'.op = "message.send" /\ last'.payload # NoPayload
      /\ last'.payload.id \notin DOMAIN messages
      /\ last'.payload.id \in DOMAIN messages')
     => LET m == messages'[last'.payload.id] IN
        /\ m.readAt = Null /\ m.editedAt = Null
        /\ m.pinned = FALSE /\ m.reactions = NoReactions
        /\ m.deliveredAt \in {Null, now}
    ]_vars

\* ------------------------------------------------------------------ result frames
\* C37 as claimed: the message.edited, message.pinned, message.reacted and
\* message.deleted frames that a frame naming a stored message causes are
\* handed only to sockets of the message's sender or recipient, whoever sent
\* the frame and whatever peerId it carries.
C37_AsClaimed ==
  [][(/\ FrameStep /\ last'.payload # NoPayload
      /\ last'.op \in {"message.edit", "message.pin", "message.react", "message.delete"}
      /\ last'.payload.id \in DOMAIN messages)
     => \A i \in DOMAIN out' :
          out'[i].frame.type \in {"message.edited", "message.pinned", "message.reacted",
                                  "message.deleted"}
          => sock[out'[i].to].user \in {messages[last'.payload.id].from,
                                        messages[last'.payload.id].to}
    ]_vars

\* ------------------------------------------------------------------ duplicate ids
\* C38 as claimed: a message.send whose id is that of a stored message leaves
\* the table, the registry and the presence subscriptions as they were and
\* hands no message.receive and no message.delivered to any socket.
C38_AsClaimed ==
  [][(/\ FrameStep /\ last'.op = "message.send" /\ last'.payload # NoPayload
      /\ last'.payload.id \in DOMAIN messages)
     => /\ messages' = messages
        /\ \A i \in DOMAIN out' :
             out'[i].frame.type \notin {"message.receive", "message.delivered"}
        /\ clients' = clients
        /\ contactSubscriptions' = contactSubscriptions
    ]_vars

\* ------------------------------------------------------------------ SpecSweep
\* A sweep that also removes the window that ends at this very instant
sweepEarly(limits, t) ==
  [u \in Users |-> IF limits[u] # NoEntry /\ t >= limits[u].resetAt
                   THEN NoEntry ELSE limits[u]]

\* for (const [k, v] of wsRateLimits) if (now > v.resetAt) wsRateLimits.delete(k)
sweep(limits, t) ==
  [u \in Users |-> IF limits[u] # NoEntry /\ t > limits[u].resetAt
                   THEN NoEntry ELSE limits[u]]

\* The interval callback runs
Sweep ==
  /\ wsRateLimits' = sweep(wsRateLimits, now)
  /\ out' = <<>>
  /\ last' = [op |-> "sweep"]
  /\ UNCHANGED <<sock, clients, onlineUsers, contactSubscriptions, unswept, messages,
                 rowid, users, now, wire, emitted>>

\* A connects and sends typing frames to B up to the limit and beyond, the
\* clock moves as in SpecRate, and the sweep runs at any instant.
NextSweep ==
  \/ \E s \in Sockets : NewSocket(s) /\ clients["A"] = NoSock /\ Connect(s, "A")
  \/ \E d \in {1, WS_RATE_WINDOW} :
       /\ ClockSteps < MaxRateTicks
       /\ d = 1 => now = unswept["A"].resetAt
       /\ Tick(d)
  \/ \E s \in Sockets :
       /\ CanReceive(s)
       /\ unswept[sock[s].user].count < WS_RATE_LIMIT + MaxOver \/ now > unswept[sock[s].user].resetAt
       /\ OnMessage(s, "typing", [to |-> "B", from |-> NoUser])
  \/ Sweep

SpecSweep == Init /\ [][NextSweep]_vars

\* C39: the sweep cannot be observed. A frame is admitted exactly when the
\* limiter that was never swept admits it, and at every instant a frame of any
\* identity would get the same verdict from both; right after a sweep no window
\* that has ended is left, and the sweep touches nothing else.
C39_SweepUnobservable ==
  /\ [](\A u \in Users :
          checkWsRate(wsRateLimits, u, now).ok = checkWsRate(unswept, u, now).ok)
  /\ [][/\ FrameStep => last'.admitted = checkWsRate(unswept, last'.user, now).ok
        /\ last'.op = "sweep" =>
             /\ \A u \in Users :
                  /\ wsRateLimits'[u] # NoEntry => ~(now > wsRateLimits'[u].resetAt)
                  /\ wsRateLimits'[u] \in {wsRateLimits[u], NoEntry}
             /\ UNCHANGED <<sock, clients, contactSubscriptions, messages, users>>
      ]_vars

\* A sweep has just removed A's window, which had ended with more frames than
\* the limit in it; the limiter that was never swept still holds it
C39_Witness ==
  /\ last.op = "sweep"
  /\ wsRateLimits["A"] = NoEntry
  /\ unswept["A"].count > WS_RATE_LIMIT
  /\ now > unswept["A"].resetAt

=============================================================================
